---- MODULE Spec2Model ----
(***************************************************************************)
(* A model of the variable-migration plugin (src/code.ts, lines 174-947):  *)
(* the identity map with its two id encodings, the five passes of          *)
(* migrateVariables, the rebinders of rebindAll and the RUN_MIGRATION      *)
(* handler, over a small host document (collections, variables, nodes,     *)
(* paint styles).                                                          *)
(***************************************************************************)
EXTENDS Integers, Sequences, FiniteSets, TLC

VARIABLES
    variables,      \* host: canonical variable id -> Variable
    collections,    \* host: collection id -> [modes, variableIds]
    nodes,          \* host: the scene nodes of figma.root, in findAll order
    styles,         \* host: the local paint styles
    nextKey,        \* host: key of the next variable createVariable makes
    idMap,          \* code.ts:178  the module-global identity map
    isMigrating,    \* code.ts:797
    pc,             \* where the RUN_MIGRATION handler stands
    req,            \* the RUN_MIGRATION payload
    movedCount,     \* code.ts:650
    replacedCount,  \* code.ts:651
    varCache,       \* code.ts:756
    allNodes,       \* code.ts:559  indices of the nodes findAll kept
    done,           \* code.ts:586
    nodesUpdated,   \* code.ts:533
    stylesUpdated,  \* code.ts:534
    posted,         \* messages given to figma.ui.postMessage, in order
    notice,         \* what the last figma.notify of the run reported
    log,            \* history: the passes the run has finished, in order
    doc0,           \* history: the document when the request arrived
    regs,           \* history: the registerMapping calls, under SpecIds
    rejected,       \* history: the host was rejecting writes in this run
    sinceYield,     \* history: entities processed since rebindAll last yielded
    watched,        \* code.ts:795-796  watchedCollectionId, watchedVariableCount
    other,          \* a second RUN_MIGRATION handler: its position and locals
    ui,             \* App.tsx: the target step of the UI and its messages in flight
    call            \* code.ts:209-234  a call of resolveAliasColor: where it stands

vars == << variables, collections, nodes, styles, nextKey, idMap, isMigrating,
           pc, req, movedCount, replacedCount, varCache, allNodes, done,
           nodesUpdated, stylesUpdated, posted, notice, log, doc0, regs,
           rejected, sinceYield, watched, other, ui, call >>

(***************************************************************************)
(* Bounds of the model.                                                    *)
(***************************************************************************)
\* longest list of selected variable ids in a request
MaxSel == 2
\* number of paints in a paint array of a node or a style
NumPaints == 3
\* host write kinds the host may reject while one entity is processed
MaxRejects == 1
\* most "VariableID:" prefixes an id string carries, under SpecIds
MaxPfx == 2
\* number of registerMapping calls, under SpecIds
MaxRegs == 2
\* number of nodes of the longest scene graph
LongLen == 12
\* number of times a target collection is chosen in the target step
MaxClicks == 2
\* number of variables of the longest alias chain, under SpecColor
MaxChain == 12

(***************************************************************************)
(* Id strings.  An id string is "VariableID:" repeated k times followed by *)
(* a key n; it is written <<k, n>>.  The host's own ids are <<1, n>>.      *)
(***************************************************************************)
StartsWithPrefix(id) == id[1] > 0

SlicePrefix(id) == << id[1] - 1, id[2] >>

AddPrefix(id) == << id[1] + 1, id[2] >>

normalise(id) == AddPrefix(IF StartsWithPrefix(id) THEN SlicePrefix(id) ELSE id)

raw(id) == IF StartsWithPrefix(id) THEN SlicePrefix(id) ELSE id

\* the value of a lookup that finds nothing (undefined / null)
Undefined == << 0, 0 >>

EmptyMap == [k \in {} |-> Undefined]

MapSet(m, k, v) == [x \in DOMAIN m \cup {k} |-> IF x = k THEN v ELSE m[x]]

MapGet(m, k) == IF k \in DOMAIN m THEN m[k] ELSE Undefined

\* the earlier draft of the registration (code.ts:32): one key, id as given
registerMappingSingleKey(m, oldId, newId) == MapSet(m, oldId, newId)

registerMapping(m, oldId, newId) ==
    MapSet(MapSet(m, normalise(oldId), normalise(newId)), raw(oldId), normalise(newId))

\* a ?? b
Coalesce(a, b) == IF a # Undefined THEN a ELSE b

resolveMappedId(m, oldId) ==
    Coalesce(MapGet(m, normalise(oldId)), MapGet(m, raw(oldId)))

(***************************************************************************)
(* The host document: values, variables, collections.                     *)
(***************************************************************************)
Alias(id) == [kind |-> "alias", id |-> id, type |-> "NONE", lit |-> 0]

Lit(t, n) == [kind |-> "lit", id |-> Undefined, type |-> t, lit |-> n]

isVariableAlias(value) == value.kind = "alias"

\* the host id of the variable with key n
VarId(n) == << 1, n >>

ModeIds(col) == {col.modes[i].modeId : i \in DOMAIN col.modes}

\* figma.variables.getVariableById: the host finds a variable by its own id
HasVariable(vs, id) == id \in DOMAIN vs

\* the value a fresh variable holds in every mode of its collection
DefaultValue(type) == Lit(type, 0)

\* figma.variables.createVariable(name, collection, resolvedType)
createVariable(vs, cols, key, name, colId, type) ==
    [vs   |-> MapSet(vs, VarId(key),
                     [name |-> name, col |-> colId, type |-> type,
                      description |-> "", scopes |-> {"ALL_SCOPES"},
                      codeSyntax |-> "",
                      values |-> [m \in ModeIds(cols[colId]) |-> DefaultValue(type)]]),
     cols |-> [cols EXCEPT ![colId].variableIds = Append(@, VarId(key))]]

\* the resolved type the host sees behind a value
\* (an alias is looked up by the host form of its id)
HostAcceptsValue(vs, varId, value) ==
    IF isVariableAlias(value)
    THEN \/ ~HasVariable(vs, normalise(value.id))
         \/ vs[normalise(value.id)].type = vs[varId].type
    ELSE value.type = vs[varId].type

\* Variable.setValueForMode, once the host has accepted the value
setValueForMode(vs, varId, modeId, value) ==
    [vs EXCEPT ![varId].values = MapSet(@, modeId, value)]

RECURSIVE WithoutId(_, _)
WithoutId(seq, id) ==
    IF seq = << >> THEN << >>
    ELSE IF Head(seq) = id THEN WithoutId(Tail(seq), id)
         ELSE << Head(seq) >> \o WithoutId(Tail(seq), id)

\* Variable.remove()
removeVariable(vs, cols, id) ==
    [vs   |-> [x \in DOMAIN vs \ {id} |-> vs[x]],
     cols |-> [cols EXCEPT ![vs[id].col].variableIds = WithoutId(@, id)]]

\* figma.variables.getLocalVariables(): every variable, by ascending key
RECURSIVE SortedIds(_)
SortedIds(S) ==
    IF S = {} THEN << >>
    ELSE LET m == CHOOSE x \in S : \A y \in S : x[2] <= y[2]
         IN  << m >> \o SortedIds(S \ {m})

(***************************************************************************)
(* migrateVariables, Pass 1 to Pass 3.  A pass threads a record            *)
(*   st = [vs, cols, key, map, moved, replaced, ok]                        *)
(* through its loop; ok = FALSE once a host call has thrown, and what      *)
(* follows the throw is skipped.                                           *)
(***************************************************************************)
\* code.ts:653-660  const targetVarsByName (a later set of a name wins)
TargetVarsByName(vs, col) ==
    LET ids == col.variableIds
        at(n) == {i \in DOMAIN ids : HasVariable(vs, ids[i]) /\ vs[ids[i]].name = n}
        names == {vs[ids[i]].name : i \in {j \in DOMAIN ids : HasVariable(vs, ids[j])}}
    IN  [n \in names |-> ids[CHOOSE i \in at(n) : \A j \in at(n) : j <= i]]

\* code.ts:666-668  the same-named target variable, under Replace only
ExistingTarget(tbn, replaceConflicts, name) ==
    IF replaceConflicts THEN MapGet(tbn, name) ELSE Undefined

\* a faulty skip: the id that no longer resolves is counted as moved
Pass1MissingCounted(st) == [st EXCEPT !.moved = @ + 1]

\* code.ts:663-664  if (!sourceVar) continue
Pass1Missing(st) == st

\* a faulty copy: the fresh variable keeps the host's defaults
CopyMetadataNone(vs, newId, sourceVar) == vs

\* code.ts:682-689  description, scopes and codeSyntax of the source
CopyMetadata(vs, newId, sourceVar) ==
    [vs EXCEPT ![newId].description = sourceVar.description,
               ![newId].scopes = sourceVar.scopes,
               ![newId].codeSyntax = sourceVar.codeSyntax]

\* code.ts:662-693  one iteration of the Pass 1 loop
Pass1Step(st, sourceId, targetId, replaceConflicts, tbn) ==
    IF ~HasVariable(st.vs, sourceId) THEN Pass1Missing(st)
    ELSE
      LET sourceVar == st.vs[sourceId]
          existing == ExistingTarget(tbn, replaceConflicts, sourceVar.name)
      IN
      IF existing # Undefined
      THEN [st EXCEPT !.map = registerMapping(@, sourceId, existing),
                      !.moved = @ + 1,
                      !.replaced = @ + 1]
      ELSE
        LET made == createVariable(st.vs, st.cols, st.key, sourceVar.name,
                                   targetId, sourceVar.type)
            newId == VarId(st.key)
            copied == CopyMetadata(made.vs, newId, sourceVar)
        IN [st EXCEPT !.vs = copied,
                      !.cols = made.cols,
                      !.key = @ + 1,
                      !.map = registerMapping(@, sourceId, newId),
                      !.moved = @ + 1]

RECURSIVE Pass1Loop(_, _, _, _, _, _)
Pass1Loop(st, ids, i, targetId, replaceConflicts, tbn) ==
    IF i > Len(ids) THEN st
    ELSE Pass1Loop(Pass1Step(st, ids[i], targetId, replaceConflicts, tbn),
                   ids, i + 1, targetId, replaceConflicts, tbn)

\* code.ts:653-693
Pass1(st, r) ==
    LET tbn == IF r.replaceConflicts
               THEN TargetVarsByName(st.vs, st.cols[r.targetCollectionId])
               ELSE [n \in {} |-> Undefined]
    IN  Pass1Loop(st, r.variableIds, 1, r.targetCollectionId, r.replaceConflicts, tbn)

\* a faulty choice of the source mode: the position first, the name never
SourceModeByPosition(sourceModes, targetModes, t) ==
    IF t <= Len(sourceModes) THEN t
    ELSE IF Len(sourceModes) > 0 THEN 1
    ELSE 0

\* code.ts:712-715  index of the source mode for target mode t, 0 when none
SourceModeFor(sourceModes, targetModes, t) ==
    LET same == {i \in DOMAIN sourceModes : sourceModes[i].name = targetModes[t].name}
    IN  IF same # {} THEN CHOOSE i \in same : \A j \in same : i <= j
        ELSE IF t <= Len(sourceModes) THEN t
        ELSE IF Len(sourceModes) > 0 THEN 1
        ELSE 0

\* a faulty copy: the source value is written as it stands
Pass2ValueVerbatim(map, sourceValue) == sourceValue

\* code.ts:722-730  the value Pass 2 writes for a source value
Pass2Value(map, sourceValue) ==
    IF isVariableAlias(sourceValue)
    THEN Alias(Coalesce(resolveMappedId(map, sourceValue.id), sourceValue.id))
    ELSE sourceValue

\* code.ts:709-731  the loop over the target modes, from target mode t on
RECURSIVE Pass2Modes(_, _, _, _, _, _)
Pass2Modes(st, sourceId, newVarId, sourceModes, targetModes, t) ==
    IF ~st.ok \/ t > Len(targetModes) THEN st
    ELSE
      LET s == SourceModeFor(sourceModes, targetModes, t)
          next(x) == Pass2Modes(x, sourceId, newVarId, sourceModes, targetModes, t + 1)
      IN
      IF s = 0 THEN next(st)
      ELSE IF sourceModes[s].modeId \notin DOMAIN st.vs[sourceId].values THEN next(st)
      ELSE
        LET value == Pass2Value(st.map, st.vs[sourceId].values[sourceModes[s].modeId])
        IN  IF HostAcceptsValue(st.vs, newVarId, value)
            THEN next([st EXCEPT !.vs = setValueForMode(@, newVarId,
                                                        targetModes[t].modeId, value)])
            ELSE [st EXCEPT !.ok = FALSE]

\* code.ts:701-732
RECURSIVE Pass2Loop(_, _, _, _)
Pass2Loop(st, r, sourceModes, i) ==
    IF ~st.ok \/ i > Len(r.variableIds) THEN st
    ELSE
      LET sourceId == r.variableIds[i]
          newVarId == resolveMappedId(st.map, sourceId)
      IN
      IF ~HasVariable(st.vs, sourceId) \/ newVarId = Undefined
           \/ ~HasVariable(st.vs, newVarId)
      THEN Pass2Loop(st, r, sourceModes, i + 1)
      ELSE Pass2Loop(Pass2Modes(st, sourceId, newVarId, sourceModes,
                                st.cols[r.targetCollectionId].modes, 1),
                     r, sourceModes, i + 1)

Pass2(st, r) == Pass2Loop(st, r, st.cols[r.sourceCollectionId].modes, 1)

\* the modes in which a variable holds a value, in its collection's order
RECURSIVE ValueModes(_, _)
ValueModes(modes, values) ==
    IF modes = << >> THEN << >>
    ELSE IF Head(modes).modeId \in DOMAIN values
         THEN << Head(modes).modeId >> \o ValueModes(Tail(modes), values)
         ELSE ValueModes(Tail(modes), values)

\* a faulty sweep: only the selected variables' own ids are looked up
Pass3TargetSelectedOnly(map, value, selected) ==
    IF isVariableAlias(value) /\ value.id \in selected
    THEN resolveMappedId(map, value.id)
    ELSE Undefined

\* a faulty sweep: an alias the map does not hold is rewritten to the host
\* form of its own id
Pass3TargetOrSelf(map, value, selected) ==
    IF isVariableAlias(value)
    THEN Coalesce(resolveMappedId(map, value.id), normalise(value.id))
    ELSE Undefined

\* code.ts:744-746  the id Pass 3 rewrites a value to, Undefined when none
Pass3Target(map, value, selected) ==
    IF isVariableAlias(value) THEN resolveMappedId(map, value.id) ELSE Undefined

\* code.ts:743-750  the entries of one variable, from entry k on
RECURSIVE Pass3Entries(_, _, _, _, _)
Pass3Entries(st, varId, entries, k, selected) ==
    IF ~st.ok \/ k > Len(entries) THEN st
    ELSE
      LET newId == Pass3Target(st.map, entries[k][2], selected)
          next(x) == Pass3Entries(x, varId, entries, k + 1, selected)
      IN
      IF newId = Undefined THEN next(st)
      ELSE IF HostAcceptsValue(st.vs, varId, Alias(newId))
           THEN next([st EXCEPT !.vs = setValueForMode(@, varId, entries[k][1],
                                                       Alias(newId))])
           ELSE [st EXCEPT !.ok = FALSE]

\* code.ts:742-751
RECURSIVE Pass3Loop(_, _, _, _)
Pass3Loop(st, allVariables, i, selected) ==
    IF ~st.ok \/ i > Len(allVariables) THEN st
    ELSE
      LET varId == allVariables[i]
          v == st.vs[varId]
          ms == ValueModes(st.cols[v.col].modes, v.values)
          entries == [k \in DOMAIN ms |-> << ms[k], v.values[ms[k]] >>]
      IN  Pass3Loop(Pass3Entries(st, varId, entries, 1, selected),
                    allVariables, i + 1, selected)

\* code.ts:740-751
Pass3(st, r) ==
    Pass3Loop(st, SortedIds(DOMAIN st.vs), 1,
              {r.variableIds[i] : i \in DOMAIN r.variableIds})

(***************************************************************************)
(* Nodes, paints and styles.                                               *)
(*   paint = [type, color, bound]      bound: an id string or NoId         *)
(*   node  = [type, fills, strokes, props, segments, componentProperties]  *)
(*   style = [paints]                                                      *)
(* The host derives boundVariables.fills / strokes / paints from the       *)
(* paints: a sparse object keyed by the index written as a string.         *)
(***************************************************************************)
NoId == Undefined

\* the key of paint index n (0-based) in a sparse binding object
IndexKey(n) == ToString(n)

\* code.ts:287  parseInt(indexStr, 10)
ParseInt(indexStr) == CHOOSE n \in 0..(NumPaints + 1) : ToString(n) = indexStr

\* node.boundVariables[field]: index key -> alias id, present indices only
SparseBounds(paints) ==
    [k \in {IndexKey(j - 1) : j \in {i \in DOMAIN paints : paints[i].bound # NoId}}
       |-> paints[ParseInt(k) + 1].bound]

\* Object.entries of a sparse binding object: integer keys, ascending
RECURSIVE EntriesFrom(_, _)
EntriesFrom(bounds, n) ==
    IF n > NumPaints + 1 THEN << >>
    ELSE IF IndexKey(n) \in DOMAIN bounds
         THEN << << IndexKey(n), bounds[IndexKey(n)] >> >> \o EntriesFrom(bounds, n + 1)
         ELSE EntriesFrom(bounds, n + 1)

Entries(bounds) == EntriesFrom(bounds, 0)

\* code.ts:244-253  result [id, cache]; id is the id of the Variable found
getVariable(vs, cache, id) ==
    LET normId == normalise(id)
    IN  IF normId \in DOMAIN cache THEN [id |-> cache[normId], cache |-> cache]
        ELSE IF HasVariable(vs, normId)
             THEN [id |-> normId, cache |-> MapSet(cache, normId, normId)]
             ELSE [id |-> Undefined, cache |-> cache]

\* code.ts:281-285 (and 339-343, 379-383, 427-431, 467-471)
\* result [id, cache]; id = Undefined when the entry is passed over
LookupResolved(vs, cache, newId) ==
    IF newId = Undefined THEN [id |-> Undefined, cache |-> cache]
    ELSE getVariable(vs, cache, newId)

Lookup(vs, cache, map, aliasId) ==
    LookupResolved(vs, cache, resolveMappedId(map, aliasId))

\* code.ts:757-763  the cache warmed with the destinations of the map
RECURSIVE WarmCache(_, _, _)
WarmCache(vs, cache, newIds) ==
    IF newIds = << >> THEN cache
    ELSE WarmCache(vs,
                   IF HasVariable(vs, Head(newIds))
                   THEN MapSet(MapSet(cache, normalise(Head(newIds)), Head(newIds)),
                               raw(Head(newIds)), Head(newIds))
                   ELSE cache,
                   Tail(newIds))

\* host write kinds; the host may reject (throw on) a write of a kind
WriteKinds == {"setBoundVariableForPaint", "assignPaints", "setBoundVariable",
               "getStyledTextSegments", "setRangeBoundVariableForPaint",
               "setProperties"}

\* a faulty paint index: the position of the entry among the present ones
PaintIndexDense(indexStr, position) == position - 1

\* code.ts:287, 385, 473  the paint index an entry names
PaintIndexOf(indexStr, position) == ParseInt(indexStr)

\* code.ts:284-300 (and 470-486)  one entry, once the variable was looked up
\* acc = [paints, changed, cache]
PaintEntry(acc, paintIndex, found, rj) ==
    IF found.id = Undefined THEN [acc EXCEPT !.cache = found.cache]
    ELSE IF paintIndex + 1 \notin DOMAIN acc.paints
         THEN [acc EXCEPT !.cache = found.cache]
    ELSE IF acc.paints[paintIndex + 1].type # "SOLID"
         THEN [acc EXCEPT !.cache = found.cache]
    ELSE IF "setBoundVariableForPaint" \in rj
         THEN [acc EXCEPT !.cache = found.cache]
    ELSE [acc EXCEPT !.cache = found.cache,
                     !.paints[paintIndex + 1].bound = found.id,
                     !.changed = TRUE]

\* code.ts:278-301 (and 464-487)  the loop over the entries, from entry k on
RECURSIVE PaintEntries(_, _, _, _, _, _)
PaintEntries(acc, entries, k, vs, map, rj) ==
    IF k > Len(entries) THEN acc
    ELSE PaintEntries(PaintEntry(acc, PaintIndexOf(entries[k][1], k),
                                 Lookup(vs, acc.cache, map, entries[k][2]), rj),
                      entries, k + 1, vs, map, rj)

\* a faulty catch: the array that could not be written back counts as changed
PaintWriteBackCounted(same, acc, rj) ==
    IF acc.changed /\ "assignPaints" \in rj
    THEN [same EXCEPT !.cache = acc.cache, !.changed = TRUE]
    ELSE acc

\* code.ts:303-312 (and 489-498)  the array is written back, or the write fails
PaintWriteBack(same, acc, rj) ==
    IF acc.changed /\ "assignPaints" \in rj
    THEN [same EXCEPT !.cache = acc.cache]
    ELSE acc

\* code.ts:264-276 (and 453-462)  the early returns
PaintArrayFrom(same, entries, vs, map, rj) ==
    IF Len(same.paints) = 0 \/ Len(entries) = 0 THEN same
    ELSE PaintWriteBack(same, PaintEntries(same, entries, 1, vs, map, rj), rj)

\* code.ts:259-313 rebindPaints, 449-499 rebindPaintStyle, on one paint array
\* result [paints, changed, cache]
rebindPaintArray(paints, cache, vs, map, rj) ==
    PaintArrayFrom([paints |-> paints, changed |-> FALSE, cache |-> cache],
                   Entries(SparseBounds(paints)), vs, map, rj)

SINGLE_PROPS ==
    << "opacity", "visible", "cornerRadius",
       "topLeftRadius", "topRightRadius", "bottomLeftRadius", "bottomRightRadius",
       "itemSpacing", "paddingLeft", "paddingRight", "paddingTop", "paddingBottom",
       "fontFamily", "fontSize", "fontStyle", "fontWeight",
       "letterSpacing", "lineHeight", "paragraphIndent", "paragraphSpacing" >>

\* code.ts:342-350  one property, once the variable was looked up
\* acc = [props, changed, cache]
SingleProp(acc, prop, found, rj) ==
    IF found.id = Undefined \/ "setBoundVariable" \in rj
    THEN [acc EXCEPT !.cache = found.cache]
    ELSE [acc EXCEPT !.cache = found.cache, !.props[prop] = found.id,
                     !.changed = TRUE]

\* code.ts:335-351  the loop over SINGLE_PROPS, from property k on
RECURSIVE rebindSinglePropsFrom(_, _, _, _, _)
rebindSinglePropsFrom(acc, k, vs, map, rj) ==
    IF k > Len(SINGLE_PROPS) THEN acc
    ELSE IF SINGLE_PROPS[k] \notin DOMAIN acc.props
         THEN rebindSinglePropsFrom(acc, k + 1, vs, map, rj)
    ELSE rebindSinglePropsFrom(
             SingleProp(acc, SINGLE_PROPS[k],
                        Lookup(vs, acc.cache, map, acc.props[SINGLE_PROPS[k]]), rj),
             k + 1, vs, map, rj)

\* code.ts:325-354  result [props, changed, cache]
rebindSingleProps(props, cache, vs, map, rj) ==
    rebindSinglePropsFrom([props |-> props, changed |-> FALSE, cache |-> cache],
                          1, vs, map, rj)

\* code.ts:382-398  one entry of a segment, once the variable was looked up
\* acc = [bounds, changed, cache]
RangeEntry(acc, paintIndex, found, rj) ==
    IF found.id = Undefined \/ "setRangeBoundVariableForPaint" \in rj
    THEN [acc EXCEPT !.cache = found.cache]
    ELSE [acc EXCEPT !.cache = found.cache,
                     !.bounds = MapSet(@, IndexKey(paintIndex), found.id),
                     !.changed = TRUE]

\* code.ts:376-399  the entries of one field of one segment, from entry k on
RECURSIVE RangeEntries(_, _, _, _, _, _)
RangeEntries(acc, entries, k, vs, map, rj) ==
    IF k > Len(entries) THEN acc
    ELSE RangeEntries(RangeEntry(acc, PaintIndexOf(entries[k][1], k),
                                 Lookup(vs, acc.cache, map, entries[k][2]), rj),
                      entries, k + 1, vs, map, rj)

\* code.ts:370-400  one field of segment i; acc = [segments, changed, cache]
SegmentField(acc, i, field, r) ==
    [segments |-> IF field = "fills"
                  THEN [acc.segments EXCEPT ![i].fills = r.bounds]
                  ELSE [acc.segments EXCEPT ![i].strokes = r.bounds],
     changed |-> r.changed,
     cache |-> r.cache]

SegmentFills(acc, i, vs, map, rj) ==
    SegmentField(acc, i, "fills",
                 RangeEntries([bounds |-> acc.segments[i].fills,
                               changed |-> acc.changed, cache |-> acc.cache],
                              Entries(acc.segments[i].fills), 1, vs, map, rj))

SegmentStrokes(acc, i, vs, map, rj) ==
    SegmentField(acc, i, "strokes",
                 RangeEntries([bounds |-> acc.segments[i].strokes,
                               changed |-> acc.changed, cache |-> acc.cache],
                              Entries(acc.segments[i].strokes), 1, vs, map, rj))

\* code.ts:367-401  the segments, from segment i on
RECURSIVE TextSegments(_, _, _, _, _)
TextSegments(acc, i, vs, map, rj) ==
    IF i > Len(acc.segments) THEN acc
    ELSE TextSegments(SegmentStrokes(SegmentFills(acc, i, vs, map, rj),
                                     i, vs, map, rj),
                      i + 1, vs, map, rj)

\* code.ts:358-407  result [segments, changed, cache]
rebindTextNode(segments, cache, vs, map, rj) ==
    IF "getStyledTextSegments" \in rj
    THEN [segments |-> segments, changed |-> FALSE, cache |-> cache]
    ELSE TextSegments([segments |-> segments, changed |-> FALSE, cache |-> cache],
                      1, vs, map, rj)

\* a faulty write: the alias goes to the last property of the instance
InstancePropLastKey(acc, k, found, rj) ==
    IF found.id = Undefined \/ "setProperties" \in rj
    THEN [acc EXCEPT !.cache = found.cache]
    ELSE [acc EXCEPT !.cache = found.cache,
                     !.cprops[Len(acc.cprops)].bound = found.id,
                     !.changed = TRUE]

\* code.ts:430-440  one component property, once the variable was looked up
\* acc = [cprops, changed, cache]
InstanceProp(acc, k, found, rj) ==
    IF found.id = Undefined \/ "setProperties" \in rj
    THEN [acc EXCEPT !.cache = found.cache]
    ELSE [acc EXCEPT !.cache = found.cache, !.cprops[k].bound = found.id,
                     !.changed = TRUE]

\* code.ts:419-442  from property k on
\* componentProperties is the list of [name, value, bound], in for..in order
RECURSIVE InstanceProps(_, _, _, _, _)
InstanceProps(acc, k, vs, map, rj) ==
    IF k > Len(acc.cprops) THEN acc
    ELSE IF acc.cprops[k].bound = NoId
         THEN InstanceProps(acc, k + 1, vs, map, rj)
    ELSE InstanceProps(InstanceProp(acc, k,
                                    Lookup(vs, acc.cache, map, acc.cprops[k].bound),
                                    rj),
                       k + 1, vs, map, rj)

\* code.ts:411-445  result [cprops, changed, cache]
rebindInstanceProps(cprops, cache, vs, map, rj) ==
    InstanceProps([cprops |-> cprops, changed |-> FALSE, cache |-> cache],
                  1, vs, map, rj)

\* code.ts:595-603  the result of one rebinder, merged into the node
\* acc = [node, changed, cache]
MergeText(acc, r) ==
    [node |-> [acc.node EXCEPT !.segments = r.segments],
     changed |-> acc.changed \/ r.changed, cache |-> r.cache]

MergeFills(acc, r) ==
    [node |-> [acc.node EXCEPT !.fills = r.paints],
     changed |-> acc.changed \/ r.changed, cache |-> r.cache]

MergeStrokes(acc, r) ==
    [node |-> [acc.node EXCEPT !.strokes = r.paints],
     changed |-> acc.changed \/ r.changed, cache |-> r.cache]

MergeProps(acc, r) ==
    [node |-> [acc.node EXCEPT !.props = r.props],
     changed |-> acc.changed \/ r.changed, cache |-> r.cache]

MergeInstance(acc, r) ==
    [node |-> [acc.node EXCEPT !.componentProperties = r.cprops],
     changed |-> acc.changed \/ r.changed, cache |-> r.cache]

\* code.ts:595-597
StepText(acc, vs, map, rj) ==
    IF acc.node.type = "TEXT"
    THEN MergeText(acc, rebindTextNode(acc.node.segments, acc.cache, vs, map, rj))
    ELSE acc

\* code.ts:598
StepFills(acc, vs, map, rj) ==
    MergeFills(acc, rebindPaintArray(acc.node.fills, acc.cache, vs, map, rj))

\* code.ts:599
StepStrokes(acc, vs, map, rj) ==
    MergeStrokes(acc, rebindPaintArray(acc.node.strokes, acc.cache, vs, map, rj))

\* code.ts:600
StepProps(acc, vs, map, rj) ==
    MergeProps(acc, rebindSingleProps(acc.node.props, acc.cache, vs, map, rj))

\* code.ts:601-603
StepInstance(acc, vs, map, rj) ==
    IF acc.node.type = "INSTANCE"
    THEN MergeInstance(acc, rebindInstanceProps(acc.node.componentProperties,
                                                acc.cache, vs, map, rj))
    ELSE acc

\* code.ts:593-605  the body of the rebindAll loop for one node
\* result [node, changed, cache]
RebindNodeBody(node, cache, vs, map, rj) ==
    StepInstance(
      StepProps(
        StepStrokes(
          StepFills(
            StepText([node |-> node, changed |-> FALSE, cache |-> cache],
                     vs, map, rj),
            vs, map, rj),
          vs, map, rj),
        vs, map, rj),
      vs, map, rj)

\* code.ts:506-526  bv: the top-level entries of a boundVariables object,
\* as a set of alias ids (direct) and a set of index maps (nested)
\* a faulty filter: the index maps of fills and strokes are not looked into
hasRelevantAliasDirectOnly(direct, nested, sourceIdSet) ==
    \E id \in direct : id \in sourceIdSet

hasRelevantAlias(direct, nested, sourceIdSet) ==
    \/ \E id \in direct : id \in sourceIdSet
    \/ \E m \in nested : \E k \in DOMAIN m : m[k] \in sourceIdSet

\* a faulty predicate: a text node is kept on its top-level bindings only
KeepNodeNoText(node, sourceIdSet) ==
    IF node.type = "PAGE" THEN FALSE
    ELSE IF hasRelevantAlias({node.props[p] : p \in DOMAIN node.props},
                             {SparseBounds(node.fills), SparseBounds(node.strokes)},
                             sourceIdSet)
         THEN TRUE
    ELSE IF node.type = "INSTANCE"
         THEN \E n \in DOMAIN node.componentProperties :
                 /\ node.componentProperties[n].bound # NoId
                 /\ hasRelevantAlias({node.componentProperties[n].bound}, {}, sourceIdSet)
    ELSE FALSE

\* code.ts:559-583  the predicate given to figma.root.findAll
KeepNode(node, sourceIdSet) ==
    IF node.type = "PAGE" THEN FALSE
    ELSE IF hasRelevantAlias({node.props[p] : p \in DOMAIN node.props},
                             {SparseBounds(node.fills), SparseBounds(node.strokes)},
                             sourceIdSet)
         THEN TRUE
    ELSE IF node.type = "TEXT" THEN TRUE
    ELSE IF node.type = "INSTANCE"
         THEN \E n \in DOMAIN node.componentProperties :
                 /\ node.componentProperties[n].bound # NoId
                 /\ hasRelevantAlias({node.componentProperties[n].bound}, {}, sourceIdSet)
    ELSE FALSE

\* figma.root.findAll(predicate): the indices of the nodes kept, in order
RECURSIVE FindAll(_, _, _)
FindAll(ns, i, sourceIdSet) ==
    IF i > Len(ns) THEN << >>
    ELSE IF KeepNode(ns[i], sourceIdSet)
         THEN << i >> \o FindAll(ns, i + 1, sourceIdSet)
         ELSE FindAll(ns, i + 1, sourceIdSet)

\* code.ts:616  the result of rebindPaintStyle, merged into the styles
MergeStyle(acc, i, r) ==
    [styles |-> [acc.styles EXCEPT ![i].paints = r.paints],
     updated |-> acc.updated + (IF r.changed THEN 1 ELSE 0),
     cache |-> r.cache]

\* code.ts:615-617  the paint styles, from style i on
\* acc = [styles, updated, cache]
RECURSIVE RebindStylesFrom(_, _, _, _, _)
RebindStylesFrom(acc, i, vs, map, rj) ==
    IF i > Len(acc.styles) THEN acc
    ELSE RebindStylesFrom(
             MergeStyle(acc, i, rebindPaintArray(acc.styles[i].paints, acc.cache,
                                                 vs, map, rj)),
             i + 1, vs, map, rj)

\* a faulty Pass 5: no source variable is removed
Pass5LoopNone(st, ids, i) == st

\* code.ts:776-779  Pass 5, from selected id i on; st = [vs, cols]
RECURSIVE Pass5Loop(_, _, _)
Pass5Loop(st, ids, i) ==
    IF i > Len(ids) THEN st
    ELSE IF HasVariable(st.vs, ids[i])
         THEN Pass5Loop(removeVariable(st.vs, st.cols, ids[i]), ids, i + 1)
         ELSE Pass5Loop(st, ids, i + 1)

(***************************************************************************)
(* The documents and requests the runs start from.                         *)
(***************************************************************************)
Mode(id, name) == [modeId |-> id, name |-> name]

\* the mode lists of the source and target collections
ModeConfigs ==
    { [core |-> << Mode("c1", "Light") >>,
       prim |-> << Mode("p1", "Light") >>],
      [core |-> << Mode("c1", "Light"), Mode("c2", "Dark") >>,
       prim |-> << Mode("p1", "Dark"), Mode("p2", "Night"), Mode("p3", "Extra") >>] }

S1 == VarId(1)
S2 == VarId(2)
E == VarId(3)
T == VarId(4)
\* a variable deleted since the selection was made
Gone == VarId(9)

\* which variable aliases which (in the first mode of its collection);
\* NoId: a literal.  Ids are written in either encoding.
AliasPatterns ==
    { [s1 |-> NoId, s2 |-> NoId,    e |-> NoId, t |-> NoId],
      [s1 |-> NoId, s2 |-> raw(S1), e |-> NoId, t |-> S1],
      [s1 |-> NoId, s2 |-> NoId,    e |-> S1,   t |-> raw(S2)],
      [s1 |-> E,    s2 |-> NoId,    e |-> NoId, t |-> S1],
      [s1 |-> S2,   s2 |-> NoId,    e |-> NoId, t |-> E] }

\* valuesByMode of a variable: the pattern's alias in the first mode,
\* a literal that tells the variable and the mode everywhere else
ValuesOf(modes, type, key, aliasId) ==
    [m \in {modes[i].modeId : i \in DOMAIN modes} |->
        LET i == CHOOSE j \in DOMAIN modes : modes[j].modeId = m
        IN  IF i = 1 /\ aliasId # NoId THEN Alias(aliasId)
            ELSE Lit(type, 10 * key + i)]

Variable(name, col, type, key, modes, aliasId) ==
    [name |-> name, col |-> col, type |-> type,
     description |-> name, scopes |-> {type}, codeSyntax |-> name,
     values |-> ValuesOf(modes, type, key, aliasId)]

ThemeModes == << Mode("t1", "Default") >>

DocCollections(cfg) ==
    [c \in {"Core", "Prim", "Theme"} |->
        IF c = "Core" THEN [modes |-> cfg.core, variableIds |-> << S1, S2 >>]
        ELSE IF c = "Prim" THEN [modes |-> cfg.prim, variableIds |-> << E >>]
        ELSE [modes |-> ThemeModes, variableIds |-> << T >>]]

DocVariables(cfg, pat, s2name, s2type, ename, etype) ==
    [id \in {S1, S2, E, T} |->
        IF id = S1 THEN Variable("a", "Core", "COLOR", 1, cfg.core, pat.s1)
        ELSE IF id = S2 THEN Variable(s2name, "Core", s2type, 2, cfg.core, pat.s2)
        ELSE IF id = E THEN Variable(ename, "Prim", etype, 3, cfg.prim, pat.e)
        ELSE Variable("t", "Theme", "COLOR", 4, ThemeModes, pat.t)]

Paint(bound) == [type |-> "SOLID", color |-> 7, bound |-> bound]

\* a paint array bound at the indices (1-based positions) of b only
PaintsAt(b) ==
    [j \in 1..NumPaints |-> IF j \in DOMAIN b THEN Paint(b[j]) ELSE Paint(NoId)]

NoPaints == << >>

NoBounds == [k \in {} |-> NoId]

Node(type, fills, strokes, props, segments, cprops) ==
    [type |-> type, fills |-> fills, strokes |-> strokes, props |-> props,
     segments |-> segments, componentProperties |-> cprops]

Segment(fills, strokes) == [fills |-> fills, strokes |-> strokes]

Prop(name, value, bound) == [name |-> name, value |-> value, bound |-> bound]

\* the scene graphs: nodes in findAll order, and the local paint styles
Graphs ==
    { [nodes |-> << >>, styles |-> << >>],
      [nodes |-> <<
          Node("PAGE", NoPaints, NoPaints, NoBounds, << >>, << >>),
          Node("FRAME", PaintsAt((NumPaints :> S1)), PaintsAt(NoBounds),
               ("opacity" :> S2), << >>, << >>),
          Node("TEXT", PaintsAt(NoBounds), NoPaints, NoBounds,
               << Segment((IndexKey(0) :> raw(S1)), NoBounds),
                  Segment(NoBounds, (IndexKey(1) :> S1)) >>, << >>) >>,
       styles |-> << [paints |-> PaintsAt((1 :> E) @@ (2 :> S1))] >>],
      [nodes |-> <<
          Node("FRAME", PaintsAt((1 :> E) @@ (2 :> S1)), PaintsAt((1 :> raw(S1))),
               NoBounds, << >>, << >>),
          Node("INSTANCE", PaintsAt(NoBounds), NoPaints, NoBounds, << >>,
               << Prop("p", 1, S1), Prop("q", 2, NoId) >>) >>,
       styles |-> << >>],
      [nodes |-> <<
          Node("TEXT", NoPaints, NoPaints, NoBounds,
               << Segment(NoBounds, NoBounds) >>, << >>),
          Node("FRAME", PaintsAt(NoBounds), NoPaints, ("itemSpacing" :> raw(S2)),
               << >>, << >>),
          Node("INSTANCE", NoPaints, NoPaints, NoBounds, << >>,
               << Prop("p", 1, raw(S1)), Prop("q", 2, E) >>) >>,
       styles |-> << [paints |-> PaintsAt((NumPaints :> raw(S1)))],
                     [paints |-> PaintsAt(NoBounds)] >>] }

\* code.ts:608  the cadence of the progress messages
ProgressEvery == 10

\* a text node without any binding
PlainText ==
    Node("TEXT", NoPaints, NoPaints, NoBounds, << Segment(NoBounds, NoBounds) >>, << >>)

\* a scene graph of n nodes: a frame bound to S1, then text nodes
LongGraph(n) ==
    [nodes |-> [i \in 1..n |->
                   IF i = 1
                   THEN Node("FRAME", PaintsAt((1 :> S1)), NoPaints, NoBounds,
                             << >>, << >>)
                   ELSE PlainText],
     styles |-> << >>]

\* graphs long enough for the progress cadence to show: exactly one period
\* of nodes, and more than one
LongGraphs == {LongGraph(ProgressEvery), LongGraph(LongLen)}

\* every id some paint, property, segment or component property is bound to
PaintIds(paints) == {paints[j].bound : j \in DOMAIN paints} \ {NoId}

BoundIds(m) == {m[k] : k \in DOMAIN m}

\* the host's typing of a document: an alias links variables of one type,
\* paints are bound to COLOR variables, single-value properties to FLOAT ones
WellTyped(vs, g) ==
    /\ \A id \in DOMAIN vs : \A m \in DOMAIN vs[id].values :
          HostAcceptsValue(vs, id, vs[id].values[m])
    /\ \A i \in DOMAIN g.nodes :
          LET n == g.nodes[i]
          IN  /\ \A id \in PaintIds(n.fills) \cup PaintIds(n.strokes) :
                    vs[normalise(id)].type = "COLOR"
              /\ \A id \in BoundIds(n.props) : vs[normalise(id)].type = "FLOAT"
              /\ \A k \in DOMAIN n.segments :
                    \A id \in BoundIds(n.segments[k].fills)
                                \cup BoundIds(n.segments[k].strokes) :
                       vs[normalise(id)].type = "COLOR"
              /\ \A k \in DOMAIN n.componentProperties :
                    n.componentProperties[k].bound # NoId =>
                       vs[normalise(n.componentProperties[k].bound)].type = "COLOR"
    /\ \A i \in DOMAIN g.styles :
          \A id \in PaintIds(g.styles[i].paints) : vs[normalise(id)].type = "COLOR"

\* the long graphs come with one set of variables: no alias, distinct names
PlainVariables(d) ==
    /\ Len(d.cfg.core) = 1
    /\ d.pat = [s1 |-> NoId, s2 |-> NoId, e |-> NoId, t |-> NoId]
    /\ d.s2name = "b"
    /\ d.s2type = "FLOAT"
    /\ d.e = << "c", "COLOR" >>

Docs ==
    { d \in [cfg : ModeConfigs, pat : AliasPatterns, s2name : {"a", "b"},
             s2type : {"COLOR", "FLOAT"},
             e : {<< "a", "COLOR" >>, << "a", "FLOAT" >>, << "c", "COLOR" >>},
             g : Graphs \cup LongGraphs] :
         /\ WellTyped(DocVariables(d.cfg, d.pat, d.s2name, d.s2type, d.e[1], d.e[2]),
                      d.g)
         /\ d.g \in LongGraphs => PlainVariables(d) }

RECURSIVE SeqsOver(_, _)
SeqsOver(S, n) ==
    IF n = 0 THEN {<< >>}
    ELSE LET shorter == SeqsOver(S, n - 1)
         IN  shorter \cup {Append(q, x) : q \in shorter, x \in S}

\* the lists of selected ids: distinct ids, as the selection of the UI holds
Selections ==
    { q \in SeqsOver({S1, S2, Gone}, MaxSel) :
         /\ Len(q) >= 1
         /\ \A i, j \in DOMAIN q : i # j => q[i] # q[j] }

\* the RUN_MIGRATION payloads (code.ts:928-933); "Lost" names no collection
Requests ==
    [sourceCollectionId : {"Core", "Lost"},
     targetCollectionId : {"Prim", "Core", "Lost"},
     variableIds : Selections,
     replaceConflicts : BOOLEAN]

\* the identity map an earlier run has left behind (code.ts:178)
StaleMap == registerMapping(EmptyMap, VarId(8), E)

(***************************************************************************)
(* The RUN_MIGRATION handler (code.ts:925-941) running migrateVariables    *)
(* (code.ts:631-789) and rebindAll (code.ts:528-620).                      *)
(***************************************************************************)
Msg(type, payload) == [type |-> type, payload |-> payload]

NoNotice == [kind |-> "none", moved |-> 0, replaced |-> 0, skipped |-> 0,
             nodes |-> 0, styles |-> 0]

\* the sets of write kinds the host rejects while one entity is processed
RejectSets == {r \in SUBSET WriteKinds : Cardinality(r) <= MaxRejects}

\* a faulty order of the passes: the originals are deleted before Pass 4
SuccessorDeleteEarly(p) ==
    CASE p = "idle"      -> "creating"
      [] p = "creating"  -> "assigning"
      [] p = "assigning" -> "crossrefs"
      [] p = "crossrefs" -> "deleting"
      [] p = "deleting"  -> "scanning"
      [] p = "scanning"  -> "filtering"
      [] p = "filtering" -> "rebinding"
      [] p = "rebinding" -> "deleted"
      [] p = "deleted"   -> "done"

\* a faulty order of the passes: the originals are deleted right after
\* Pass 1
SuccessorDeleteFirst(p) ==
    CASE p = "idle"      -> "creating"
      [] p = "creating"  -> "deleting"
      [] p = "deleting"  -> "assigning"
      [] p = "assigning" -> "crossrefs"
      [] p = "crossrefs" -> "scanning"
      [] p = "scanning"  -> "filtering"
      [] p = "filtering" -> "rebinding"
      [] p = "rebinding" -> "deleted"
      [] p = "deleted"   -> "done"

\* a faulty order of the passes: Pass 3 is left out
SuccessorWithoutPass3(p) ==
    CASE p = "idle"      -> "creating"
      [] p = "creating"  -> "assigning"
      [] p = "assigning" -> "scanning"
      [] p = "crossrefs" -> "scanning"
      [] p = "scanning"  -> "filtering"
      [] p = "filtering" -> "rebinding"
      [] p = "rebinding" -> "deleting"
      [] p = "deleting"  -> "deleted"
      [] p = "deleted"   -> "done"

\* a faulty order: the scan is announced after the nodes were filtered
SuccessorScanLate(p) ==
    CASE p = "idle"      -> "creating"
      [] p = "creating"  -> "assigning"
      [] p = "assigning" -> "crossrefs"
      [] p = "crossrefs" -> "filtering"
      [] p = "filtering" -> "scanning"
      [] p = "scanning"  -> "rebinding"
      [] p = "rebinding" -> "deleting"
      [] p = "deleting"  -> "deleted"
      [] p = "deleted"   -> "done"

\* code.ts:631-789  the order in which migrateVariables runs its steps
Successor(p) ==
    CASE p = "idle"      -> "creating"
      [] p = "creating"  -> "assigning"
      [] p = "assigning" -> "crossrefs"
      [] p = "crossrefs" -> "scanning"
      [] p = "scanning"  -> "filtering"
      [] p = "filtering" -> "rebinding"
      [] p = "rebinding" -> "deleting"
      [] p = "deleting"  -> "deleted"
      [] p = "deleted"   -> "done"

\* a faulty guard: only the source collection is looked at
CollectionsFoundSourceOnly(cols, r) == r.sourceCollectionId \in DOMAIN cols

\* the locals of a handler that has not been called
\* found and during are history: the selected ids its Pass 1 resolved, and
\* where the first handler stood when it began
OtherIdle ==
    [pc |-> "idle", req |-> << >>, movedCount |-> 0, replacedCount |-> 0,
     varCache |-> EmptyMap, allNodes |-> << >>, done |-> 0,
     nodesUpdated |-> 0, stylesUpdated |-> 0, found |-> {}, during |-> "idle"]

\* code.ts:833-838  what GET_VARIABLES left in the watcher for collection id
\* pc: where the documentchange handler stands
Watched(cols, id) ==
    [collectionId |-> id,
     count |-> IF id \in DOMAIN cols THEN Len(cols[id].variableIds) ELSE Undefined,
     pc |-> "idle"]

\* code.ts:637-642  both collections resolve
CollectionsFound(cols, r) ==
    /\ r.sourceCollectionId \in DOMAIN cols
    /\ r.targetCollectionId \in DOMAIN cols

\* resolveAliasColor has not been called
NotCalled ==
    [pc |-> "idle", varId |-> Undefined, depth |-> 0, lookups |-> 0,
     result |-> [defined |-> FALSE, hex |-> 0]]

\* no target collection is chosen (App.tsx: targetCollectionId null)
NoTarget == "none"

\* App.tsx:344, 883-884  the target step is entered: no target chosen, the
\* dry run idle, no message in flight.  The field "for" of a dry-run state
\* is history: the target the payload it holds was computed for
UiIdle ==
    [targetCollectionId |-> NoTarget,
     dryRun |-> [status |-> "idle", payload |-> << >>, for |-> NoTarget],
     sent |-> << >>,
     results |-> << >>,
     clicks |-> 0]

\* a faulty start of a run: the map of the earlier runs is kept
ClearedMapKept(m) == m

\* code.ts:644  idMap.clear()
ClearedMap(m) == EmptyMap

hostVars == << variables, collections, nodes, styles, nextKey >>

runVars == << movedCount, replacedCount, varCache, allNodes, done,
              nodesUpdated, stylesUpdated >>

\* code.ts:935-940  catch and finally of the handler
Failed ==
    /\ pc' = "failed"
    /\ isMigrating' = FALSE
    /\ posted' = Append(posted, Msg("MIGRATION_ERROR", << >>))
    /\ notice' = [NoNotice EXCEPT !.kind = "failed"]
    /\ log' = Append(log, "failed")

State == [vs |-> variables, cols |-> collections, key |-> nextKey, map |-> idMap,
          moved |-> movedCount, replaced |-> replacedCount, ok |-> TRUE]

\* code.ts:926, 637-651
StartRun ==
    /\ pc = "idle"
    /\ IF CollectionsFound(collections, req)
       THEN /\ pc' = Successor(pc)
            /\ isMigrating' = TRUE
            /\ idMap' = ClearedMap(idMap)
            /\ UNCHANGED << posted, notice, log >>
       ELSE /\ Failed
            /\ UNCHANGED idMap
    /\ UNCHANGED << hostVars, runVars, req, doc0, regs,
                    rejected >>
    /\ UNCHANGED << sinceYield, watched, other, ui, call >>

\* code.ts:653-693
CreatePass ==
    /\ pc = "creating"
    /\ LET st == Pass1(State, req)
       IN  /\ variables' = st.vs
           /\ collections' = st.cols
           /\ nextKey' = st.key
           /\ idMap' = st.map
           /\ movedCount' = st.moved
           /\ replacedCount' = st.replaced
    /\ pc' = Successor(pc)
    /\ log' = Append(log, "pass1")
    /\ UNCHANGED << nodes, styles, isMigrating, req, varCache, allNodes, done,
                    nodesUpdated, stylesUpdated, posted, notice, doc0, regs,
                    rejected >>
    /\ UNCHANGED << sinceYield, watched, other, ui, call >>

\* code.ts:701-732
AssignPass ==
    /\ pc = "assigning"
    /\ LET st == Pass2(State, req)
       IN  /\ variables' = st.vs
           /\ IF st.ok
              THEN /\ pc' = Successor(pc)
                   /\ log' = Append(log, "pass2")
                   /\ UNCHANGED << isMigrating, posted, notice >>
              ELSE Failed
    /\ UNCHANGED << collections, nodes, styles, nextKey, idMap, req, runVars,
                    doc0, regs,
                    rejected >>
    /\ UNCHANGED << sinceYield, watched, other, ui, call >>

\* code.ts:740-751
CrossRefPass ==
    /\ pc = "crossrefs"
    /\ LET st == Pass3(State, req)
       IN  /\ variables' = st.vs
           /\ IF st.ok
              THEN /\ pc' = Successor(pc)
                   /\ log' = Append(log, "pass3")
                   /\ UNCHANGED << isMigrating, posted, notice >>
              ELSE Failed
    /\ UNCHANGED << collections, nodes, styles, nextKey, idMap, req, runVars,
                    doc0, regs,
                    rejected >>
    /\ UNCHANGED << sinceYield, watched, other, ui, call >>

\* code.ts:756-773, 539-546  warm the cache, announce the scan, yield
Scan ==
    /\ pc = "scanning"
    /\ varCache' = WarmCache(variables, EmptyMap,
                             SortedIds({idMap[k] : k \in DOMAIN idMap}))
    /\ posted' = Append(posted,
                        Msg("MIGRATION_SCANNING",
                            << Cardinality({i \in DOMAIN nodes : nodes[i].type # "PAGE"}),
                               Cardinality({i \in DOMAIN nodes : nodes[i].type = "PAGE"}) >>))
    /\ pc' = Successor(pc)
    /\ UNCHANGED << hostVars, idMap, isMigrating, req, movedCount, replacedCount,
                    allNodes, done, nodesUpdated, stylesUpdated, notice, log,
                    doc0, regs,
                    rejected >>
    /\ sinceYield' = 0
    /\ UNCHANGED << watched, other, ui, call >>

\* a faulty start: the loop begins without the announcement
AnnounceTotalSilent(p, total) == p

\* code.ts:588-589  onProgress(0, total)
AnnounceTotal(p, total) == Append(p, Msg("MIGRATION_PROGRESS", << 0, total >>))

\* code.ts:552-590  filter the nodes, announce 0 / total, yield
Filter ==
    /\ pc = "filtering"
    /\ allNodes' = FindAll(nodes, 1, DOMAIN idMap)
    /\ done' = 0
    /\ nodesUpdated' = 0
    /\ stylesUpdated' = 0
    /\ posted' = AnnounceTotal(posted, Len(allNodes'))
    /\ pc' = Successor(pc)
    /\ UNCHANGED << hostVars, idMap, isMigrating, req, movedCount, replacedCount,
                    varCache, notice, log, doc0, regs,
                    rejected >>
    /\ sinceYield' = 0
    /\ UNCHANGED << watched, other, ui, call >>

\* a faulty count: every processed entity is counted as updated
NodeReboundCountsAll(i, r) ==
    /\ nodes' = [nodes EXCEPT ![i] = r.node]
    /\ varCache' = r.cache
    /\ nodesUpdated' = nodesUpdated + 1

\* code.ts:596-605  what one iteration leaves in the node and the counters
NodeRebound(i, r) ==
    /\ nodes' = [nodes EXCEPT ![i] = r.node]
    /\ varCache' = r.cache
    /\ nodesUpdated' = nodesUpdated + (IF r.changed THEN 1 ELSE 0)

\* code.ts:616  what the loop over the styles leaves
StylesRebound(r) ==
    /\ styles' = r.styles
    /\ stylesUpdated' = r.updated
    /\ varCache' = r.cache

\* a faulty cadence: the end of the traversal is not announced
ProgressDueOnPeriodOnly(n, total) == n % ProgressEvery = 0

\* code.ts:608  if (done % 10 === 0 || done === total)
ProgressDue(n, total) == n % ProgressEvery = 0 \/ n = total

\* a faulty loop: the count of processed entities is advanced twice
DoneIncrementTwice(n) == n + 2

\* code.ts:607  done++
DoneIncrement(n) == n + 1

\* a faulty loop: the only yield is the one after the last entity
YieldDueAtEndOnly(n, total) == n = total

\* code.ts:608-611  the loop yields where it reports
YieldDue(n, total) == ProgressDue(n, total)

\* code.ts:592-612  one iteration of the loop over allNodes
RebindNode ==
    /\ pc = "rebinding"
    /\ done < Len(allNodes)
    /\ \E rj \in RejectSets :
          /\ NodeRebound(allNodes[done + 1],
                         RebindNodeBody(nodes[allNodes[done + 1]], varCache,
                                        variables, idMap, rj))
          /\ rejected' = (rejected \/ rj # {})
    /\ done' = DoneIncrement(done)
    /\ posted' = IF ProgressDue(done', Len(allNodes))
                 THEN Append(posted, Msg("MIGRATION_PROGRESS", << done', Len(allNodes) >>))
                 ELSE posted
    /\ UNCHANGED << variables, collections, styles, nextKey, idMap, isMigrating,
                    pc, req, movedCount, replacedCount, allNodes, stylesUpdated,
                    notice, log, doc0, regs >>
    /\ sinceYield' = IF YieldDue(done', Len(allNodes)) THEN 0 ELSE sinceYield + 1
    /\ UNCHANGED << watched, other, ui, call >>

\* code.ts:614-619  the paint styles, and the return of rebindAll
RebindStyles ==
    /\ pc = "rebinding"
    /\ done = Len(allNodes)
    /\ \E rj \in RejectSets :
          /\ StylesRebound(RebindStylesFrom([styles |-> styles, updated |-> 0,
                                             cache |-> varCache],
                                            1, variables, idMap, rj))
          /\ rejected' = (rejected \/ rj # {})
    /\ pc' = Successor(pc)
    /\ log' = Append(log, "pass4")
    /\ UNCHANGED << variables, collections, nodes, nextKey, idMap, isMigrating,
                    req, movedCount, replacedCount, allNodes, done, nodesUpdated,
                    posted, notice, doc0, regs >>
    /\ UNCHANGED << sinceYield, watched, other, ui, call >>

\* code.ts:776-779
DeletePass ==
    /\ pc = "deleting"
    /\ LET st == Pass5Loop([vs |-> variables, cols |-> collections],
                           req.variableIds, 1)
       IN  /\ variables' = st.vs
           /\ collections' = st.cols
    /\ pc' = Successor(pc)
    /\ log' = Append(log, "pass5")
    /\ UNCHANGED << nodes, styles, nextKey, idMap, isMigrating, req, runVars,
                    posted, notice, doc0, regs,
                    rejected >>
    /\ UNCHANGED << sinceYield, watched, other, ui, call >>

\* code.ts:781-788, 934, 939  notify, return, post the result
Finish ==
    /\ pc = "deleted"
    /\ notice' = [kind |-> "done", moved |-> movedCount, replaced |-> replacedCount,
                  skipped |-> Len(req.variableIds) - movedCount,
                  nodes |-> nodesUpdated, styles |-> stylesUpdated]
    /\ posted' = Append(posted,
                        Msg("MIGRATION_SUCCESS",
                            << movedCount, replacedCount, nodesUpdated, stylesUpdated >>))
    /\ isMigrating' = FALSE
    /\ pc' = Successor(pc)
    /\ log' = Append(log, "success")
    /\ UNCHANGED << hostVars, idMap, req, runVars, doc0, regs,
                    rejected >>
    /\ UNCHANGED << sinceYield, watched, other, ui, call >>

InitOver(docs, requests) ==
    /\ \E d \in docs :
          /\ variables = DocVariables(d.cfg, d.pat, d.s2name, d.s2type, d.e[1], d.e[2])
          /\ collections = DocCollections(d.cfg)
          /\ nodes = d.g.nodes
          /\ styles = d.g.styles
    /\ nextKey = 5
    /\ req \in requests
    /\ idMap = StaleMap
    /\ isMigrating = FALSE
    /\ pc = "idle"
    /\ movedCount = 0
    /\ replacedCount = 0
    /\ varCache = EmptyMap
    /\ allNodes = << >>
    /\ done = 0
    /\ nodesUpdated = 0
    /\ stylesUpdated = 0
    /\ posted = << >>
    /\ notice = NoNotice
    /\ log = << >>
    /\ doc0 = [variables |-> variables, collections |-> collections,
               nodes |-> nodes, styles |-> styles]
    /\ regs = << >>
    /\ rejected = FALSE
    /\ sinceYield = 0
    /\ watched = Watched(collections, req.sourceCollectionId)
    /\ other = OtherIdle
    /\ ui = UiIdle
    /\ call = NotCalled

\* code.ts:178, 795-797  the plugin is loaded, a request has arrived
Init == InitOver(Docs, Requests)

(***************************************************************************)
(* The DRY_RUN handler (code.ts:884-923).  The UI sends DRY_RUN when the   *)
(* target collection is chosen, with the collections and the selection of  *)
(* the RUN_MIGRATION that follows.                                         *)
(***************************************************************************)
\* code.ts:904-909  movedNames
movedNames(vs, ids) ==
    {vs[ids[i]].name : i \in {j \in DOMAIN ids : HasVariable(vs, ids[j])}}

\* a faulty count: the ids that resolve are counted
missingCountOfFound(vs, ids) ==
    Cardinality({i \in DOMAIN ids : HasVariable(vs, ids[i])})

\* code.ts:905-909  missingCount
missingCount(vs, ids) ==
    Cardinality({i \in DOMAIN ids : ~HasVariable(vs, ids[i])})

\* a faulty list: the name of every variable of the target
conflictingNamesOfAll(vs, targetIds, moved) ==
    [i \in DOMAIN targetIds |-> vs[targetIds[i]].name]

\* code.ts:911-913  conflictingNames, in the order of the target's variables
RECURSIVE conflictingNames(_, _, _)
conflictingNames(vs, targetIds, moved) ==
    IF targetIds = << >> THEN << >>
    ELSE IF HasVariable(vs, Head(targetIds)) /\ vs[Head(targetIds)].name \in moved
         THEN << vs[Head(targetIds)].name >>
                 \o conflictingNames(vs, Tail(targetIds), moved)
         ELSE conflictingNames(vs, Tail(targetIds), moved)

\* code.ts:886-918  the payload of DRY_RUN_RESULT
DryRunResult(vs, cols, r) ==
    IF r.sourceCollectionId \notin DOMAIN cols
    THEN [error |-> "source_missing"]
    ELSE IF r.targetCollectionId \notin DOMAIN cols
    THEN [error |-> "target_missing"]
    ELSE [conflictingNames |->
             conflictingNames(vs, cols[r.targetCollectionId].variableIds,
                              movedNames(vs, r.variableIds)),
          missingCount |-> missingCount(vs, r.variableIds)]

\* a faulty handler: the dry run takes the target for the watched collection
DryRunWatching ==
    /\ pc = "idle"
    /\ \A k \in DOMAIN posted : posted[k].type # "DRY_RUN_RESULT"
    /\ posted' = Append(posted, Msg("DRY_RUN_RESULT",
                                    DryRunResult(variables, collections, req)))
    /\ watched' = Watched(collections, req.targetCollectionId)
    /\ UNCHANGED << hostVars, runVars, idMap, isMigrating, pc, req, notice, log,
                    doc0, regs, rejected, sinceYield, other, ui, call >>

\* code.ts:884-923  the DRY_RUN handler
DryRun ==
    /\ pc = "idle"
    /\ \A k \in DOMAIN posted : posted[k].type # "DRY_RUN_RESULT"
    /\ posted' = Append(posted, Msg("DRY_RUN_RESULT",
                                    DryRunResult(variables, collections, req)))
    /\ UNCHANGED << hostVars, runVars, idMap, isMigrating, pc, req, notice, log,
                    doc0, regs, rejected, sinceYield, watched, other, ui, call >>

Next ==
    \/ StartRun
    \/ CreatePass
    \/ AssignPass
    \/ CrossRefPass
    \/ Scan
    \/ Filter
    \/ RebindNode
    \/ RebindStyles
    \/ DeletePass
    \/ Finish

Spec == Init /\ [][Next]_vars

\* the handlers of DRY_RUN and RUN_MIGRATION
NextDry ==
    \/ DryRun
    \/ Next

SpecDry == Init /\ [][NextDry]_vars

\* the steps of a run that compute no pass
LightSteps ==
    \/ StartRun
    \/ Scan
    \/ Filter
    \/ DeletePass
    \/ Finish

\* the guard of Pass 1, Pass 2, Pass 3, of the processing of an entity or
\* of the style pass holds
PassPending ==
    \/ pc \in {"creating", "assigning", "crossrefs"}
    \/ pc = "rebinding" /\ done <= Len(allNodes)

\* weak fairness of the passes and of the processing of an entity, written
\* with the guard of the action for its enabling condition: each of these
\* steps changes pc or done whenever its guard holds
PassesResumed ==
    []<>(~PassPending) \/ []<><<pc' # pc \/ done' # done>>_vars

\* the handler runs on, and every scheduled continuation is eventually
\* resumed
SpecLive ==
    /\ Init
    /\ [][Next]_vars
    /\ WF_vars(LightSteps)
    /\ PassesResumed

(***************************************************************************)
(* The identity map on its own: registerMapping and resolveMappedId over   *)
(* id strings with any number of prefixes.                                 *)
(***************************************************************************)
IdKeys == {1, 2}

IdStrings == {<< k, n >> : k \in 0..MaxPfx, n \in IdKeys}

\* code.ts:194-197  one call of registerMapping
Register ==
    /\ pc = "ids"
    /\ Len(regs) < MaxRegs
    /\ \E oldId \in IdStrings, newId \in IdStrings :
          /\ idMap' = registerMapping(idMap, oldId, newId)
          /\ regs' = Append(regs, << oldId, newId >>)
    /\ UNCHANGED << hostVars, runVars, isMigrating, pc, req, posted, notice, log,
                    doc0, rejected >>
    /\ UNCHANGED << sinceYield, watched, other, ui, call >>

\* code.ts:644  idMap.clear()
ClearMap ==
    /\ pc = "ids"
    /\ regs # << >>
    /\ idMap' = EmptyMap
    /\ regs' = << >>
    /\ UNCHANGED << hostVars, runVars, isMigrating, pc, req, posted, notice, log,
                    doc0, rejected >>
    /\ UNCHANGED << sinceYield, watched, other, ui, call >>

InitIds ==
    /\ variables = [id \in {} |-> 0]
    /\ collections = [c \in {} |-> 0]
    /\ nodes = << >>
    /\ styles = << >>
    /\ nextKey = 5
    /\ req = [sourceCollectionId |-> "Core", targetCollectionId |-> "Prim",
              variableIds |-> << >>, replaceConflicts |-> FALSE]
    /\ idMap = EmptyMap
    /\ isMigrating = FALSE
    /\ pc = "ids"
    /\ movedCount = 0
    /\ replacedCount = 0
    /\ varCache = EmptyMap
    /\ allNodes = << >>
    /\ done = 0
    /\ nodesUpdated = 0
    /\ stylesUpdated = 0
    /\ posted = << >>
    /\ notice = NoNotice
    /\ log = << >>
    /\ doc0 = [variables |-> variables, collections |-> collections,
               nodes |-> nodes, styles |-> styles]
    /\ regs = << >>
    /\ rejected = FALSE
    /\ sinceYield = 0
    /\ watched = Watched(collections, req.sourceCollectionId)
    /\ other = OtherIdle
    /\ ui = UiIdle
    /\ call = NotCalled

NextIds ==
    \/ Register
    \/ ClearMap

SpecIds == InitIds /\ [][NextIds]_vars

(***************************************************************************)
(* Vocabulary of the properties.                                           *)
(***************************************************************************)
InLog(pass) == \E i \in DOMAIN log : log[i] = pass

Selected == {req.variableIds[i] : i \in DOMAIN req.variableIds}

\* the selected ids that resolved when the request arrived
Resolvable == Selected \cap DOMAIN doc0.variables

\* the selected variables that are no longer in the document
Removed == Resolvable \ DOMAIN variables

LastPosted == posted[Len(posted)]

\* the request names a collection the document does not hold
CollectionMissing ==
    \/ req.sourceCollectionId \notin DOMAIN doc0.collections
    \/ req.targetCollectionId \notin DOMAIN doc0.collections

DocumentUntouched ==
    /\ variables = doc0.variables
    /\ collections = doc0.collections
    /\ nodes = doc0.nodes
    /\ styles = doc0.styles

(***************************************************************************)
(* Properties.                                                             *)
(***************************************************************************)
\* C1: whenever a selected source variable has been removed, Pass 3 has
\* finished, every entity of the traversal has been visited by the rebinder
\* and the paint styles have been rebound (Pass 4 has finished).
C1_DeleteAfterRebind ==
    Removed # {} =>
        /\ InLog("pass3")
        /\ InLog("pass4")
        /\ done = Len(allNodes)

\* a run that removed a source after traversing several entities and a style
C1_Witness ==
    /\ pc = "done"
    /\ S1 \in Removed
    /\ Len(allNodes) >= 2
    /\ Len(styles) >= 1
    /\ done = Len(allNodes)

\* C4 (as amended): after registerMapping(oldId, newId), resolveMappedId of
\* the prefixed form of oldId and of the unprefixed form of oldId both
\* return the canonical (prefixed) form of newId.
C4_ResolveEitherEncoding ==
    regs # << >> =>
        /\ resolveMappedId(idMap, normalise(regs[Len(regs)][1]))
              = normalise(regs[Len(regs)][2])
        /\ resolveMappedId(idMap, raw(regs[Len(regs)][1]))
              = normalise(regs[Len(regs)][2])

\* a second registration whose newId was given without the prefix
C4_Witness ==
    /\ Len(regs) = 2
    /\ ~StartsWithPrefix(regs[2][2])
    /\ regs[1][1] = regs[2][1]
    /\ regs[1][2] # regs[2][2]
    /\ resolveMappedId(idMap, raw(regs[2][1])) = AddPrefix(regs[2][2])

\* C4 as first stated: both lookups return newId as it was given.
C4_ReturnsNewIdAsGiven ==
    regs # << >> =>
        /\ resolveMappedId(idMap, normalise(regs[Len(regs)][1])) = regs[Len(regs)][2]
        /\ resolveMappedId(idMap, raw(regs[Len(regs)][1])) = regs[Len(regs)][2]

\* C9: when the source or the target collection does not resolve, the run
\* goes from idle straight to failed, the document is as it was when the
\* request arrived, and MIGRATION_ERROR is what the caller receives.
C9_MissingCollectionFailsClean ==
    CollectionMissing =>
        /\ pc \in {"idle", "failed"}
        /\ DocumentUntouched
        /\ nextKey = 5
        /\ pc = "failed" =>
              /\ posted = << Msg("MIGRATION_ERROR", << >>) >>
              /\ ~isMigrating

\* a failed run whose target collection was missing, on a document with bindings
C9_Witness ==
    /\ pc = "failed"
    /\ req.sourceCollectionId = "Core"
    /\ req.targetCollectionId = "Lost"
    /\ S1 \in Selected
    /\ Len(nodes) >= 2
    /\ LastPosted.type = "MIGRATION_ERROR"

\* the selected ids that did not resolve when the request arrived
Missing == Selected \ DOMAIN doc0.variables

\* the variables the target collection held when the request arrived
TargetIds0 ==
    {doc0.collections[req.targetCollectionId].variableIds[i] :
        i \in DOMAIN doc0.collections[req.targetCollectionId].variableIds}

\* the variables of the target collection that carry the name n now
TargetNamed(n) ==
    {id \in DOMAIN variables :
        variables[id].col = req.targetCollectionId /\ variables[id].name = n}

\* a binding that names a variable of the document
Resolves(bound) == bound # NoId /\ HasVariable(variables, normalise(bound))

\* a binding that named the variable V
Named(bound, V) == bound # NoId /\ normalise(bound) = V

\* the value an alias to a registered id is retargeted to
Retargeted(value) ==
    IF isVariableAlias(value) /\ resolveMappedId(idMap, value.id) # Undefined
    THEN Alias(resolveMappedId(idMap, value.id))
    ELSE value

\* every binding of the document that named V names an existing variable now
BindingsResolve(V) ==
    /\ \A i \in DOMAIN nodes :
          /\ \A j \in DOMAIN doc0.nodes[i].fills :
                Named(doc0.nodes[i].fills[j].bound, V)
                   => Resolves(nodes[i].fills[j].bound)
          /\ \A j \in DOMAIN doc0.nodes[i].strokes :
                Named(doc0.nodes[i].strokes[j].bound, V)
                   => Resolves(nodes[i].strokes[j].bound)
          /\ \A q \in DOMAIN doc0.nodes[i].props :
                Named(doc0.nodes[i].props[q], V) => Resolves(nodes[i].props[q])
          /\ \A k \in DOMAIN doc0.nodes[i].segments :
                /\ \A x \in DOMAIN doc0.nodes[i].segments[k].fills :
                      Named(doc0.nodes[i].segments[k].fills[x], V)
                         => Resolves(nodes[i].segments[k].fills[x])
                /\ \A x \in DOMAIN doc0.nodes[i].segments[k].strokes :
                      Named(doc0.nodes[i].segments[k].strokes[x], V)
                         => Resolves(nodes[i].segments[k].strokes[x])
          /\ \A k \in DOMAIN doc0.nodes[i].componentProperties :
                Named(doc0.nodes[i].componentProperties[k].bound, V)
                   => Resolves(nodes[i].componentProperties[k].bound)
    /\ \A i \in DOMAIN styles :
          \A j \in DOMAIN doc0.styles[i].paints :
             Named(doc0.styles[i].paints[j].bound, V)
                => Resolves(styles[i].paints[j].bound)

\* C2: after a completed migration in which the host rejected no write,
\* every selected variable V that existed is gone under its old id, and every
\* binding (scalar property, paint of fills or strokes, text range, instance
\* property, style paint) that named V before the run names an existing
\* variable.
C2_BindingsResolveAfterRun ==
    (pc = "done" /\ ~rejected) =>
        \A V \in Resolvable : V \notin DOMAIN variables /\ BindingsResolve(V)

NoDanglingAlias(vs) ==
    \A id \in DOMAIN vs : \A m \in DOMAIN vs[id].values :
        isVariableAlias(vs[id].values[m])
           => HasVariable(vs, normalise(vs[id].values[m].id))

\* C3: from a document without dangling alias, after a completed run every
\* alias value of every variable in every mode names an existing variable.
C3_NoDanglingAliasAfterRun ==
    (pc = "done" /\ NoDanglingAlias(doc0.variables)) => NoDanglingAlias(variables)

\* C5: when Pass 3 has finished, no variable holds in any mode an alias to
\* an id registered in the identity map; in the variables the document held
\* before the run that are no destination, each such alias has become an
\* alias to the resolved destination and every other value is as it was.
C5_NoAliasToSourceAfterPass3 ==
    pc = "scanning" =>
        /\ \A id \in DOMAIN variables : \A m \in DOMAIN variables[id].values :
              isVariableAlias(variables[id].values[m])
                 => resolveMappedId(idMap, variables[id].values[m].id) = Undefined
        /\ \A id \in DOMAIN doc0.variables \ {idMap[k] : k \in DOMAIN idMap} :
              \A m \in DOMAIN doc0.variables[id].values :
                 variables[id].values[m] = Retargeted(doc0.variables[id].values[m])

\* paint array a against the array a0 it was before the run: same length,
\* and a paint differs only where a0 was bound to a registered id, and then
\* only in its binding, which is the resolved destination
PaintsPreserved(a0, a) ==
    /\ Len(a) = Len(a0)
    /\ \A j \in DOMAIN a0 :
          IF a0[j].bound # NoId /\ resolveMappedId(idMap, a0[j].bound) # Undefined
          THEN a[j] \in {a0[j],
                         [a0[j] EXCEPT !.bound = resolveMappedId(idMap, a0[j].bound)]}
          ELSE a[j] = a0[j]

\* the same for the binding map of a text range
BoundsPreserved(b0, b) ==
    /\ DOMAIN b = DOMAIN b0
    /\ \A k \in DOMAIN b0 :
          IF resolveMappedId(idMap, b0[k]) # Undefined
          THEN b[k] \in {b0[k], resolveMappedId(idMap, b0[k])}
          ELSE b[k] = b0[k]

\* C6: in the fills and strokes of every node, the fills and strokes of
\* every text range and the paints of every style, only the indices present
\* in the sparse binding map and bound to a registered source id get a new
\* binding; every other index, bound or literal, is as it was.
C6_SparseIndicesPreserved ==
    /\ \A i \in DOMAIN nodes :
          /\ PaintsPreserved(doc0.nodes[i].fills, nodes[i].fills)
          /\ PaintsPreserved(doc0.nodes[i].strokes, nodes[i].strokes)
          /\ DOMAIN nodes[i].segments = DOMAIN doc0.nodes[i].segments
          /\ \A k \in DOMAIN doc0.nodes[i].segments :
                /\ BoundsPreserved(doc0.nodes[i].segments[k].fills,
                                   nodes[i].segments[k].fills)
                /\ BoundsPreserved(doc0.nodes[i].segments[k].strokes,
                                   nodes[i].segments[k].strokes)
    /\ \A i \in DOMAIN styles :
          PaintsPreserved(doc0.styles[i].paints, styles[i].paints)

\* a run that rebound the last index of a frame's fills, index 1 of a style's
\* paints next to a binding to an unmigrated variable, and a text range
C6_Witness ==
    /\ pc = "done"
    /\ Len(nodes) = 3 /\ Len(styles) = 1
    /\ doc0.nodes[2].fills = PaintsAt((NumPaints :> S1))
    /\ nodes[2].fills[NumPaints].bound \notin {NoId, S1}
    /\ \A j \in 1..(NumPaints - 1) : nodes[2].fills[j] = Paint(NoId)
    /\ E \notin Selected
    /\ styles[1].paints[1].bound = E
    /\ styles[1].paints[2].bound \notin {NoId, S1}
    /\ nodes[3].segments[1].fills[IndexKey(0)] \notin {S1, raw(S1)}
    /\ nodes[3].segments[2].strokes[IndexKey(1)] \notin {S1, raw(S1)}

\* the value Pass 2 copies into target mode t of the destination of source
\* variable V: V's value in the source mode chosen for t, aliases remapped
CopiedValue(V, t) ==
    Pass2Value(idMap,
               doc0.variables[V].values[
                  doc0.collections[req.sourceCollectionId].modes[
                     SourceModeFor(doc0.collections[req.sourceCollectionId].modes,
                                   doc0.collections[req.targetCollectionId].modes,
                                   t)].modeId])

\* C7: under Replace, for a selected variable whose name a variable of the
\* target collection already carries, no variable is created, the source id
\* is registered to that existing variable and counted as replaced; after the
\* run the target collection holds exactly one variable of that name, and
\* its value in every mode is the source variable's value.
C7_ReplaceKeepsOneVariable ==
    (pc = "done" /\ req.replaceConflicts) =>
        \A V \in Resolvable :
           (\E e \in TargetIds0 : doc0.variables[e].name = doc0.variables[V].name) =>
              /\ resolveMappedId(idMap, V) \in TargetIds0
              /\ doc0.variables[resolveMappedId(idMap, V)].name = doc0.variables[V].name
              /\ replacedCount >= 1
              /\ nextKey - 5 = movedCount - replacedCount
              /\ Cardinality(TargetNamed(doc0.variables[V].name)) = 1
              /\ \A id \in TargetNamed(doc0.variables[V].name) :
                    \A t \in DOMAIN doc0.collections[req.targetCollectionId].modes :
                       variables[id].values[
                          doc0.collections[req.targetCollectionId].modes[t].modeId]
                          = CopiedValue(V, t)

\* the selected variables that resolved and carry the name n
ResolvableNamed(n) == {V \in Resolvable : doc0.variables[V].name = n}

\* the unselected variables the target collection held under the name n
KeptNamed(n) == {e \in TargetIds0 \ Selected : doc0.variables[e].name = n}

\* C8 (as amended): under Duplicate every resolvable selected variable gets
\* a newly created destination variable of its own, with its name, in the
\* target collection, also when the target already holds that name;
\* replacedCount is 0; after the run the target holds, for each name, the
\* unselected variables it held plus one new variable per resolvable selected
\* variable of that name, and each unselected pre-existing variable keeps
\* its values except aliases to migrated variables, which name the new ids.
C8_DuplicateAlwaysCreates ==
    (~req.replaceConflicts /\ InLog("pass1")) =>
        /\ replacedCount = 0
        /\ nextKey - 5 = Cardinality(Resolvable)
        /\ \A V \in Resolvable :
              /\ resolveMappedId(idMap, V) # Undefined
              /\ resolveMappedId(idMap, V) \notin DOMAIN doc0.variables
              /\ variables[resolveMappedId(idMap, V)].name = doc0.variables[V].name
              /\ variables[resolveMappedId(idMap, V)].col = req.targetCollectionId
              /\ \A W \in Resolvable \ {V} :
                    resolveMappedId(idMap, W) # resolveMappedId(idMap, V)
        /\ pc = "done" =>
              /\ \A V \in Resolvable :
                    Cardinality(TargetNamed(doc0.variables[V].name))
                       = Cardinality(KeptNamed(doc0.variables[V].name))
                         + Cardinality(ResolvableNamed(doc0.variables[V].name))
              /\ \A e \in TargetIds0 \ Selected :
                    /\ e \in DOMAIN variables
                    /\ \A m \in DOMAIN doc0.variables[e].values :
                          variables[e].values[m] = Retargeted(doc0.variables[e].values[m])

\* a Duplicate run into a collection that held the name: two variables of
\* that name, and the pre-existing one's alias to the source retargeted
C8_Witness ==
    /\ pc = "done"
    /\ ~req.replaceConflicts
    /\ req.targetCollectionId = "Prim"
    /\ req.variableIds = << S1 >>
    /\ doc0.variables[E].name = doc0.variables[S1].name
    /\ \E m \in DOMAIN doc0.variables[E].values : doc0.variables[E].values[m] = Alias(S1)
    /\ Cardinality(TargetNamed(doc0.variables[S1].name)) = 2
    /\ \E m \in DOMAIN variables[E].values :
          variables[E].values[m] = Alias(resolveMappedId(idMap, S1))
    /\ replacedCount = 0

\* C8 as first stated: after a Duplicate run into a collection that already
\* held an unselected variable of a selected variable's name, the target
\* holds two variables of that name and the pre-existing one has all its
\* values as they were; replacedCount is 0.
C8_PreExistingKeepsAllValues ==
    (pc = "done" /\ ~req.replaceConflicts) =>
        /\ replacedCount = 0
        /\ \A V \in Resolvable :
              /\ resolveMappedId(idMap, V) \notin DOMAIN doc0.variables
              /\ \A e \in KeptNamed(doc0.variables[V].name) :
                    /\ Cardinality(TargetNamed(doc0.variables[V].name)) = 2
                    /\ e \in DOMAIN variables
                    /\ variables[e].values = doc0.variables[e].values

\* a node that named one of the variables ids in a binding Pass 4 looks at
RefersTo(node, ids) ==
    \/ \E j \in DOMAIN node.fills : \E V \in ids : Named(node.fills[j].bound, V)
    \/ \E j \in DOMAIN node.strokes : \E V \in ids : Named(node.strokes[j].bound, V)
    \/ \E q \in DOMAIN node.props : \E V \in ids : Named(node.props[q], V)
    \/ \E k \in DOMAIN node.componentProperties :
          \E V \in ids : Named(node.componentProperties[k].bound, V)

\* every node binding (fills, strokes, scalar property, text range, instance
\* property) that named V names the destination registered for V
BindingsMoved(V) ==
    \A i \in DOMAIN nodes :
       /\ \A j \in DOMAIN doc0.nodes[i].fills :
             Named(doc0.nodes[i].fills[j].bound, V)
                => nodes[i].fills[j].bound = resolveMappedId(idMap, V)
       /\ \A j \in DOMAIN doc0.nodes[i].strokes :
             Named(doc0.nodes[i].strokes[j].bound, V)
                => nodes[i].strokes[j].bound = resolveMappedId(idMap, V)
       /\ \A q \in DOMAIN doc0.nodes[i].props :
             Named(doc0.nodes[i].props[q], V)
                => nodes[i].props[q] = resolveMappedId(idMap, V)
       /\ \A k \in DOMAIN doc0.nodes[i].segments :
             /\ \A x \in DOMAIN doc0.nodes[i].segments[k].fills :
                   Named(doc0.nodes[i].segments[k].fills[x], V)
                      => nodes[i].segments[k].fills[x] = resolveMappedId(idMap, V)
             /\ \A x \in DOMAIN doc0.nodes[i].segments[k].strokes :
                   Named(doc0.nodes[i].segments[k].strokes[x], V)
                      => nodes[i].segments[k].strokes[x] = resolveMappedId(idMap, V)
       /\ \A k \in DOMAIN doc0.nodes[i].componentProperties :
             Named(doc0.nodes[i].componentProperties[k].bound, V)
                => nodes[i].componentProperties[k].bound = resolveMappedId(idMap, V)

\* C10: a selected id that does not resolve raises no error and has no
\* effect: Pass 1 registers nothing and creates nothing for it and never
\* fails; every other selected variable is registered and counted as moved,
\* receives its values in Pass 2, has the entities bound to it traversed in
\* Pass 4 and, when the host rejected no write, rebound to its destination,
\* and is deleted in Pass 5; the run reports as skipped the number of
\* selected ids that did not resolve.
C10_MissingIdSkipped ==
    (Missing # {} /\ ~CollectionMissing) =>
        /\ \A g \in Missing :
              resolveMappedId(idMap, g) = Undefined /\ g \notin DOMAIN variables
        /\ InLog("failed") => InLog("pass1")
        /\ InLog("pass1") =>
              /\ movedCount = Cardinality(Resolvable)
              /\ nextKey - 5 = movedCount - replacedCount
              /\ \A V \in Resolvable : resolveMappedId(idMap, V) # Undefined
        /\ InLog("pass2") =>
              \A V \in Resolvable :
                 HasVariable(variables, resolveMappedId(idMap, V)) =>
                    \A m \in DOMAIN variables[resolveMappedId(idMap, V)].values :
                       variables[resolveMappedId(idMap, V)].values[m]
                          # DefaultValue(variables[resolveMappedId(idMap, V)].type)
        /\ InLog("pass4") =>
              /\ done = Len(allNodes)
              /\ \A i \in DOMAIN doc0.nodes :
                    (doc0.nodes[i].type # "PAGE" /\ RefersTo(doc0.nodes[i], Resolvable))
                       => \E k \in DOMAIN allNodes : allNodes[k] = i
        /\ (pc = "done" /\ ~rejected) =>
              \A V \in Resolvable : BindingsMoved(V)
        /\ pc = "done" =>
              /\ Removed = Resolvable
              /\ notice.kind = "done"
              /\ notice.moved = Cardinality(Resolvable)
              /\ notice.skipped = Cardinality(Missing)

\* a completed run whose first selected id was gone and whose second was moved
C10_Witness ==
    /\ pc = "done"
    /\ req.variableIds = << Gone, S1 >>
    /\ notice.skipped = 1
    /\ notice.moved = 1
    /\ S1 \in Removed
    /\ nextKey = 6
    /\ Len(allNodes) >= 1
    /\ ~rejected
    /\ nodesUpdated >= 1

\* a binding that still names a registered source whose destination is
\* another variable
Stale(bound) ==
    /\ bound # NoId
    /\ resolveMappedId(idMap, bound) # Undefined
    /\ resolveMappedId(idMap, bound) # normalise(bound)

\* the kinds of slot of a node in which a stale binding is left
StaleKinds(node) ==
    {k \in {"paints", "props", "text", "instance"} :
        \/ /\ k = "paints"
           /\ \E id \in PaintIds(node.fills) \cup PaintIds(node.strokes) : Stale(id)
        \/ /\ k = "props"
           /\ \E id \in BoundIds(node.props) : Stale(id)
        \/ /\ k = "text"
           /\ \E x \in DOMAIN node.segments :
                 \E id \in BoundIds(node.segments[x].fills)
                             \cup BoundIds(node.segments[x].strokes) : Stale(id)
        \/ /\ k = "instance"
           /\ \E x \in DOMAIN node.componentProperties :
                 Stale(node.componentProperties[x].bound)}

\* no source is registered as its own destination
NoIdentityMapping == \A k \in DOMAIN idMap : idMap[k] # normalise(k)

\* the traversed nodes already processed
Processed == {allNodes[k] : k \in 1..done}

\* C11: a host rejection during Pass 4 does not abort the run: a run in
\* which the host rejected writes never fails; in each processed entity the
\* slots of at most as many kinds as the host rejected keep a stale binding
\* (none when it rejected nothing); Pass 4 ends with every entity processed;
\* and the entities and styles counted in nodesUpdated and stylesUpdated are
\* those a write changed.
C11_RejectionDoesNotAbort ==
    /\ rejected => pc # "failed"
    /\ pc \in {"rebinding", "deleting"} =>
          \A i \in Processed :
             Cardinality(StaleKinds(nodes[i])) <= (IF rejected THEN MaxRejects ELSE 0)
    /\ InLog("pass4") => done = Len(allNodes)
    /\ (pc \in {"rebinding", "deleting"} /\ NoIdentityMapping) =>
          nodesUpdated = Cardinality({i \in Processed : nodes[i] # doc0.nodes[i]})
    /\ (pc = "deleting" /\ NoIdentityMapping) =>
          stylesUpdated = Cardinality({i \in DOMAIN styles : styles[i] # doc0.styles[i]})

\* a completed run in which the scalar property of a frame was rejected: its
\* fill was rebound all the same, the next entity and the style too, and
\* the frame counts as updated
C11_Witness ==
    /\ pc = "done"
    /\ rejected
    /\ Len(nodes) = 3 /\ Len(styles) = 1
    /\ req.variableIds = << S1, S2 >>
    /\ NoIdentityMapping
    /\ nodes[2].props["opacity"] = S2
    /\ nodes[2].fills[NumPaints].bound = resolveMappedId(idMap, S1)
    /\ nodes[3].segments[1].fills[IndexKey(0)] = resolveMappedId(idMap, S1)
    /\ styles[1].paints[2].bound = resolveMappedId(idMap, S1)
    /\ nodesUpdated = 2
    /\ stylesUpdated = 1
    /\ LastPosted.type = "MIGRATION_SUCCESS"

\* a selected variable that resolves carries the name of a variable the
\* target collection held when the request arrived
NameCollision ==
    \E V \in Resolvable : \E e \in TargetIds0 :
       doc0.variables[e].name = doc0.variables[V].name

\* C12: a run between two distinct collections whose selection collides by
\* name with the target collection never ends in error, under either policy
\* and whatever the type and the values of the colliding destination variable.
C12_CollisionNeverFails ==
    (/\ ~CollectionMissing
     /\ req.sourceCollectionId # req.targetCollectionId
     /\ NameCollision) => pc # "failed"

SourceModes0 == doc0.collections[req.sourceCollectionId].modes

TargetModes0 == doc0.collections[req.targetCollectionId].modes

\* the positions of the source modes that carry the name of target mode t
SameName(t) == {i \in DOMAIN SourceModes0 : SourceModes0[i].name = TargetModes0[t].name}

\* the selected variables that resolve and share their destination with no
\* other selected variable
SoleSources ==
    {V \in Resolvable :
        \A W \in Resolvable \ {V} :
           resolveMappedId(idMap, W) # resolveMappedId(idMap, V)}

SourceValue0(V, t) ==
    doc0.variables[V].values[
       SourceModes0[SourceModeFor(SourceModes0, TargetModes0, t)].modeId]

\* the value V's destination holds now in the target mode at position t
DestinationValue(V, t) ==
    variables[resolveMappedId(idMap, V)].values[TargetModes0[t].modeId]

\* w is what Pass 2 is to write for the source value v
WrittenFor(v, w) ==
    IF isVariableAlias(v) /\ resolveMappedId(idMap, v.id) # Undefined
    THEN w = Alias(resolveMappedId(idMap, v.id))
    ELSE w = v

\* C14: when Pass 2 has finished, a destination holds, for a source value
\* that aliases a registered variable, an alias to that variable's new id,
\* wherever the two variables stand in the selection; for an alias to an
\* unregistered variable the alias to the original id; for a literal the
\* literal itself.
C14_AliasRemappedInPass2 ==
    pc = "crossrefs" =>
        \A V \in SoleSources : \A t \in DOMAIN TargetModes0 :
           WrittenFor(SourceValue0(V, t), DestinationValue(V, t))

\* S1 aliases S2, S2 is selected after S1, and the copy of S1 aliases the
\* copy of S2; the literal of S1's second mode was copied unchanged
C14_Witness ==
    /\ pc = "crossrefs"
    /\ req.variableIds = << S1, S2 >>
    /\ ~req.replaceConflicts
    /\ req.sourceCollectionId # req.targetCollectionId
    /\ doc0.variables[S1].values["c1"] = Alias(S2)
    /\ resolveMappedId(idMap, S2) \notin {Undefined, S2}
    /\ \E t \in DOMAIN TargetModes0 :
          /\ SourceValue0(S1, t) = Alias(S2)
          /\ DestinationValue(S1, t) = Alias(resolveMappedId(idMap, S2))
    /\ \E t \in DOMAIN TargetModes0 :
          /\ ~isVariableAlias(SourceValue0(S1, t))
          /\ DestinationValue(S1, t) = SourceValue0(S1, t)

\* the variables the run has created
Created == DOMAIN variables \ DOMAIN doc0.variables

\* d is a fresh copy of V in the target collection
FreshCopy(V, d) ==
    /\ d \in Created
    /\ variables[d].col = req.targetCollectionId
    /\ \E i \in DOMAIN collections[req.targetCollectionId].variableIds :
          collections[req.targetCollectionId].variableIds[i] = d
    /\ variables[d].name = doc0.variables[V].name
    /\ variables[d].type = doc0.variables[V].type
    /\ variables[d].description = doc0.variables[V].description
    /\ variables[d].scopes = doc0.variables[V].scopes

\* C15: under Duplicate, when Pass 1 has finished and before Pass 2 starts,
\* every selected id that resolves is registered (in either encoding) to a
\* new variable of its own in the target collection, with the source's
\* name, resolvedType, description and scopes, and no other variable was
\* created.
C15_DuplicateCreatesOnePerSource ==
    (pc = "assigning" /\ ~req.replaceConflicts) =>
        /\ \A V \in Resolvable :
              /\ resolveMappedId(idMap, V) # Undefined
              /\ resolveMappedId(idMap, raw(V)) = resolveMappedId(idMap, V)
              /\ FreshCopy(V, resolveMappedId(idMap, V))
        /\ \A V, W \in Resolvable :
              V # W => resolveMappedId(idMap, V) # resolveMappedId(idMap, W)
        /\ Cardinality(Created) = Cardinality(Resolvable)
        /\ \A V \in Resolvable : variables[V] = doc0.variables[V]

\* Pass 1 has duplicated two variables of different types, one of them
\* named like a variable of the target collection, next to an id that is gone
C15_Witness ==
    /\ pc = "assigning"
    /\ ~req.replaceConflicts
    /\ req.targetCollectionId = "Prim"
    /\ Cardinality(Resolvable) = 2
    /\ Cardinality(Created) = 2
    /\ doc0.variables[S1].type # doc0.variables[S2].type
    /\ doc0.variables[E].name = doc0.variables[S1].name
    /\ FreshCopy(S1, resolveMappedId(idMap, S1))
    /\ FreshCopy(S2, resolveMappedId(idMap, S2))
    /\ variables[resolveMappedId(idMap, S2)].scopes # {"ALL_SCOPES"}

\* the id of a binding is registered in the identity map, in either encoding
Registered(bound) ==
    bound # NoId /\ (normalise(bound) \in DOMAIN idMap \/ raw(bound) \in DOMAIN idMap)

\* the node has a registered alias in its top-level bindings: a scalar
\* property, or a paint of its fills or strokes
TopLevelRegistered(node) ==
    \/ \E p \in DOMAIN node.props : Registered(node.props[p])
    \/ \E j \in DOMAIN node.fills : Registered(node.fills[j].bound)
    \/ \E j \in DOMAIN node.strokes : Registered(node.strokes[j].bound)

\* the node is an instance with a registered alias in a component property
InstanceRegistered(node) ==
    /\ node.type = "INSTANCE"
    /\ \E n \in DOMAIN node.componentProperties :
          Registered(node.componentProperties[n].bound)

\* the nodes rebindAll is to visit
ToVisit ==
    {i \in DOMAIN doc0.nodes :
        \/ doc0.nodes[i].type = "TEXT"
        \/ /\ doc0.nodes[i].type # "PAGE"
           /\ TopLevelRegistered(doc0.nodes[i]) \/ InstanceRegistered(doc0.nodes[i])}

\* C16: from the filter of rebindAll on, the nodes to traverse are, in
\* document order and each once, every TEXT node and every non-page node
\* with a registered alias in its top-level bindings or in a component
\* property; no other node is among them.
C16_TraversedSet ==
    pc \in {"rebinding", "deleting", "done"} =>
        /\ {allNodes[k] : k \in DOMAIN allNodes} = ToVisit
        /\ \A k, l \in DOMAIN allNodes : k < l => allNodes[k] < allNodes[l]

\* the filter has kept a text node without any binding and an instance for
\* its property, and has skipped a frame bound to an unregistered variable
C16_Witness ==
    /\ pc = "rebinding"
    /\ done = 0
    /\ Len(doc0.nodes) = 3
    /\ doc0.nodes[1].type = "TEXT" /\ doc0.nodes[1].segments = << Segment(NoBounds, NoBounds) >>
    /\ doc0.nodes[2].type = "FRAME" /\ doc0.nodes[2].props # NoBounds
    /\ doc0.nodes[3].type = "INSTANCE" /\ ~TopLevelRegistered(doc0.nodes[3])
    /\ allNodes = << 1, 3 >>

\* a binding slot that is empty or whose id the identity map does not resolve
UnrelatedBinding(bound) == bound = NoId \/ resolveMappedId(idMap, bound) = Undefined

\* a variable value that is a literal or an alias the map does not resolve
UnrelatedValue(value) ==
    ~isVariableAlias(value) \/ resolveMappedId(idMap, value.id) = Undefined

\* the variable w is v with, at most, related mode values rewritten
VariableFramed(v, w) ==
    /\ DOMAIN w.values = DOMAIN v.values
    /\ [w EXCEPT !.values = v.values] = v
    /\ \A m \in DOMAIN v.values :
          UnrelatedValue(v.values[m]) => w.values[m] = v.values[m]

\* the paint array q is p with, at most, related bindings rewritten
PaintsFramed(p, q) ==
    /\ DOMAIN q = DOMAIN p
    /\ \A j \in DOMAIN p :
          /\ [q[j] EXCEPT !.bound = p[j].bound] = p[j]
          /\ UnrelatedBinding(p[j].bound) => q[j].bound = p[j].bound

\* the map of bindings c is b with, at most, related bindings rewritten
BoundsFramed(b, c) ==
    /\ DOMAIN c = DOMAIN b
    /\ \A k \in DOMAIN b : UnrelatedBinding(b[k]) => c[k] = b[k]

\* the node o is n with, at most, related bindings rewritten
NodeFramed(n, o) ==
    /\ o.type = n.type
    /\ PaintsFramed(n.fills, o.fills)
    /\ PaintsFramed(n.strokes, o.strokes)
    /\ BoundsFramed(n.props, o.props)
    /\ DOMAIN o.segments = DOMAIN n.segments
    /\ \A i \in DOMAIN n.segments :
          /\ BoundsFramed(n.segments[i].fills, o.segments[i].fills)
          /\ BoundsFramed(n.segments[i].strokes, o.segments[i].strokes)
    /\ DOMAIN o.componentProperties = DOMAIN n.componentProperties
    /\ \A k \in DOMAIN n.componentProperties :
          /\ [o.componentProperties[k] EXCEPT !.bound = n.componentProperties[k].bound]
                = n.componentProperties[k]
          /\ UnrelatedBinding(n.componentProperties[k].bound) =>
                o.componentProperties[k].bound = n.componentProperties[k].bound

\* what a step of Pass 3 may change
Pass3Frame ==
    /\ DOMAIN variables' = DOMAIN variables
    /\ \A id \in DOMAIN variables : VariableFramed(variables[id], variables'[id])
    /\ UNCHANGED << collections, nodes, styles >>

\* what a step of Pass 4 may change
Pass4Frame ==
    /\ DOMAIN nodes' = DOMAIN nodes
    /\ \A i \in DOMAIN nodes : NodeFramed(nodes[i], nodes'[i])
    /\ DOMAIN styles' = DOMAIN styles
    /\ \A i \in DOMAIN styles : PaintsFramed(styles[i].paints, styles'[i].paints)
    /\ UNCHANGED << variables, collections >>

\* C17: a step of Pass 3 leaves every literal mode value and every alias
\* the identity map does not resolve as it was, and touches no node and no
\* style; a step of Pass 4 leaves every node binding, text-range binding,
\* instance property and style paint whose id the map does not resolve, and
\* everything that is not a binding, as it was, and touches no variable; no
\* other step of a run touches a node or a style.
C17_NothingUnrelatedChanges ==
    [][ /\ pc = "crossrefs" => Pass3Frame
        /\ pc = "rebinding" => Pass4Frame
        /\ pc # "rebinding" => UNCHANGED << nodes, styles >> ]_vars

\* Pass 3 and Pass 4 have retargeted S1's alias to S2 and a paint bound to
\* S1, next to T's alias to E and a paint bound to E, which the map does not
\* hold and which are as they were
C17_Witness ==
    /\ pc = "deleting"
    /\ ~rejected
    /\ doc0.variables[S1].values["c1"] = Alias(S2)
    /\ variables[S1].values["c1"] = Alias(resolveMappedId(idMap, S2))
    /\ resolveMappedId(idMap, S2) # S2
    /\ resolveMappedId(idMap, E) = Undefined
    /\ doc0.variables[T].values["t1"] = Alias(E)
    /\ variables[T] = doc0.variables[T]
    /\ Len(nodes) = 2
    /\ doc0.nodes[1].fills[1].bound = E /\ nodes[1].fills[1].bound = E
    /\ doc0.nodes[1].fills[2].bound = S1
    /\ nodes[1].fills[2].bound = resolveMappedId(idMap, S1)
    /\ resolveMappedId(idMap, S1) # S1
    /\ nodes[2].componentProperties[2] = doc0.nodes[2].componentProperties[2]

\* the instances among the traversed nodes
VisitedInstances ==
    {allNodes[k] : k \in {l \in DOMAIN allNodes : nodes[allNodes[l]].type = "INSTANCE"}}

\* the component property q is p rebound to the destination of its alias
PropertyRebound(p, q) ==
    /\ q.name = p.name
    /\ q.value = p.value
    /\ q.bound = resolveMappedId(idMap, p.bound)
    /\ q.bound = normalise(q.bound)

\* C18: when Pass 4 has finished without a rejected write, every component
\* property of a traversed instance that was bound to a registered id is
\* bound to the resolved destination variable, under its name and with its
\* value; whether writes were rejected or not, every other property of the
\* instance is as it was.
C18_InstancePropsRebound ==
    pc \in {"deleting", "done"} =>
        \A i \in VisitedInstances :
           /\ DOMAIN nodes[i].componentProperties
                 = DOMAIN doc0.nodes[i].componentProperties
           /\ \A k \in DOMAIN doc0.nodes[i].componentProperties :
                 IF UnrelatedBinding(doc0.nodes[i].componentProperties[k].bound)
                 THEN nodes[i].componentProperties[k]
                         = doc0.nodes[i].componentProperties[k]
                 ELSE ~rejected =>
                         PropertyRebound(doc0.nodes[i].componentProperties[k],
                                         nodes[i].componentProperties[k])

\* an instance whose first property was bound to S1 in the short form and
\* whose second property is bound to E has been rebound: the first property
\* names the copy of S1, the second is as it was
C18_Witness ==
    /\ pc = "deleting"
    /\ ~rejected
    /\ Len(nodes) = 3
    /\ 3 \in VisitedInstances
    /\ doc0.nodes[3].componentProperties[1].bound = raw(S1)
    /\ resolveMappedId(idMap, S1) \notin {Undefined, S1}
    /\ nodes[3].componentProperties[1].bound = resolveMappedId(idMap, S1)
    /\ nodes[3].componentProperties[1].value = doc0.nodes[3].componentProperties[1].value
    /\ doc0.nodes[3].componentProperties[2].bound = E
    /\ nodes[3].componentProperties[2] = doc0.nodes[3].componentProperties[2]

\* the positions of the progress events among the events posted
ProgressAt == {k \in DOMAIN posted : posted[k].type = "MIGRATION_PROGRESS"}

\* the announcement of the traversal: nothing done, ToVisit to do
Announcement == Msg("MIGRATION_PROGRESS", << 0, Cardinality(ToVisit) >>)

\* C19: in every run that has reached Pass 4 the first progress event is
\* (0, total) with total the number of entities to traverse, and while no
\* entity has been processed it is the last event posted and no node, no
\* style and no counter has changed.
C19_TotalAnnouncedFirst ==
    /\ pc \in {"rebinding", "deleting", "deleted", "done"} =>
          /\ ProgressAt # {}
          /\ \E k \in ProgressAt :
                /\ posted[k] = Announcement
                /\ \A j \in ProgressAt : k <= j
    /\ (pc = "rebinding" /\ done = 0) =>
          /\ LastPosted = Announcement
          /\ nodes = doc0.nodes
          /\ styles = doc0.styles
          /\ nodesUpdated = 0

\* the traversal of three entities is announced after the scan and before
\* the first of them is processed
C19_Witness ==
    /\ pc = "rebinding"
    /\ done = 0
    /\ Len(allNodes) = 3
    /\ Len(posted) = 2
    /\ posted[1].type = "MIGRATION_SCANNING"
    /\ posted[2] = Msg("MIGRATION_PROGRESS", << 0, 3 >>)
    /\ nodes = doc0.nodes

\* the done values of the progress events posted
ProgressDone == {posted[k].payload[1] : k \in ProgressAt}

\* the values of done at which the loop, having processed n entities of
\* total, has reported
Reported(n, total) ==
    {0} \cup {m \in 1..n : m % ProgressEvery = 0 \/ m = total}

\* C20: from the start of the traversal on, the progress events posted are
\* the announcement and one event for each count of processed entities that
\* is a multiple of ten or the total; their done values strictly increase,
\* they all carry the same total, and once the traversal is over the last
\* of them has done = total, also when there is nothing to traverse.
C20_ProgressCadence ==
    pc \in {"rebinding", "deleting", "deleted", "done"} =>
        /\ ProgressDone = Reported(done, Len(allNodes))
        /\ \A j, k \in ProgressAt :
              j < k => posted[j].payload[1] < posted[k].payload[1]
        /\ \A k \in ProgressAt : posted[k].payload[2] = Len(allNodes)
        /\ pc # "rebinding" =>
              /\ done = Len(allNodes)
              /\ \E k \in ProgressAt :
                    /\ posted[k].payload[1] = Len(allNodes)
                    /\ \A j \in ProgressAt : j <= k

\* a traversal of more than ten entities, not a multiple of ten, has
\* reported at nought, at ten and at the end, and at no other count
C20_Witness ==
    /\ pc = "done"
    /\ Len(allNodes) = LongLen
    /\ LongLen > ProgressEvery
    /\ LongLen % ProgressEvery # 0
    /\ ProgressDone = {0, ProgressEvery, LongLen}
    /\ Cardinality(ProgressAt) = 3

\* the run is suspended at a yield of rebindAll: after the scanning
\* announcement, or in the loop with nothing processed since the last yield
AtYield ==
    \/ pc = "filtering"
    \/ pc = "rebinding" /\ sinceYield = 0

\* the last progress event reports the present count of processed entities
JustReported ==
    /\ LastPosted.type = "MIGRATION_PROGRESS"
    /\ LastPosted.payload[1] = done

Phases ==
    << "idle", "creating", "assigning", "crossrefs", "scanning", "filtering",
       "rebinding", "deleting", "deleted", "done" >>

PhaseOf(p) == CHOOSE i \in DOMAIN Phases : Phases[i] = p

\* the passes a run has finished when it stands at p
FinishedAt(p) ==
    SubSeq(<< "pass1", "pass2", "pass3", "pass4", "pass5", "success" >>, 1,
           CASE p \in {"idle", "creating"} -> 0
             [] p = "assigning" -> 1
             [] p = "crossrefs" -> 2
             [] p \in {"scanning", "filtering", "rebinding"} -> 3
             [] p = "deleting" -> 4
             [] p = "deleted" -> 5
             [] p = "done" -> 6)

\* C22: a run changes its phase only to the next phase of the order Idle,
\* Creating, AssigningValues, RebindingCrossReferences, RebindingGraph,
\* Deleted, or to Failed; it leaves the traversal only when every entity
\* was processed, enters Pass 2 only when every selected id that resolves
\* is registered, has finished exactly the passes before its phase, each
\* once, and takes no step once it has failed or ended.
C22_PhaseOrder ==
    [][ /\ pc \notin {"failed", "done"}
        /\ pc # "failed" => log = FinishedAt(pc)
        /\ pc' # pc =>
              \/ pc' = "failed" /\ pc \in {"idle", "assigning", "crossrefs"}
              \/ pc' = Phases[PhaseOf(pc) + 1]
        /\ (pc = "rebinding" /\ pc' # pc) => done = Len(allNodes)
        /\ pc' = "assigning" =>
              \A V \in Resolvable : resolveMappedId(idMap', V) # Undefined
        /\ pc' = "failed" => log' = Append(log, "failed") ]_vars

\* a run over several entities has ended after all its passes, in order
C22_Witness ==
    /\ pc = "done"
    /\ log = << "pass1", "pass2", "pass3", "pass4", "pass5", "success" >>
    /\ Len(allNodes) = 3
    /\ done = 3
    /\ Removed # {}

\* the positions of the results among the events posted
ResultAt ==
    {k \in DOMAIN posted : posted[k].type \in {"MIGRATION_SUCCESS", "MIGRATION_ERROR"}}

\* the handler has returned and has posted one result, the last event
Ended ==
    /\ pc \in {"done", "failed"}
    /\ ~isMigrating
    /\ Cardinality(ResultAt) = 1
    /\ ResultAt = {Len(posted)}
    /\ pc = "done" <=> LastPosted.type = "MIGRATION_SUCCESS"

\* C23: when every continuation is eventually resumed, every run ends and
\* stays ended, with exactly one result posted, MIGRATION_SUCCESS or
\* MIGRATION_ERROR; no run posts a second result.
C23_RunEnds ==
    /\ <>[]Ended
    /\ [](Cardinality(ResultAt) <= 1)
    /\ [](pc \in {"done", "failed"} => Ended)

\* a run over more than ten entities has ended with its one result
C23_Witness ==
    /\ Ended
    /\ pc = "done"
    /\ Len(allNodes) = LongLen
    /\ done = LongLen

\* MIGRATION_ERROR has been posted
ErrorPosted == \E k \in DOMAIN posted : posted[k].type = "MIGRATION_ERROR"

\* C24: when MIGRATION_ERROR has been posted, every variable the document
\* held when the request arrived is still there, the selected ones
\* included, in the collection that held it; what the run had created is
\* still there too.
C24_ErrorDeletesNothing ==
    ErrorPosted =>
        /\ pc = "failed"
        /\ Removed = {}
        /\ DOMAIN doc0.variables \subseteq DOMAIN variables
        /\ \A c \in DOMAIN doc0.collections :
              \A i \in DOMAIN doc0.collections[c].variableIds :
                 collections[c].variableIds[i] = doc0.collections[c].variableIds[i]
        /\ \A k \in DOMAIN idMap : HasVariable(variables, idMap[k])

\* a run has failed in Pass 2 after Pass 1 had created a variable: the
\* selected variables and the new one are in the document
C24_Witness ==
    /\ pc = "failed"
    /\ ErrorPosted
    /\ log = << "pass1", "failed" >>
    /\ Cardinality(Resolvable) = 2
    /\ Cardinality(Created) = 1
    /\ Resolvable \subseteq DOMAIN variables

\* the positions of the dry-run results among the events posted
DryRunAt == {k \in DOMAIN posted : posted[k].type = "DRY_RUN_RESULT"}

\* the variables of the target collection named like a selected variable
\* that resolves
Conflicting ==
    {e \in TargetIds0 :
        \E V \in Resolvable : doc0.variables[V].name = doc0.variables[e].name}

\* C25: when both collections resolve, the dry-run result counts in
\* missingCount the selected ids that do not resolve, and lists in
\* conflictingNames, once for each of them, the names of the variables of
\* the target collection that carry the name of a selected variable that
\* resolves.
C25_DryRunResult ==
    \A k \in DryRunAt :
       ~CollectionMissing =>
          /\ DOMAIN posted[k].payload = {"conflictingNames", "missingCount"}
          /\ posted[k].payload.missingCount = Cardinality(Missing)
          /\ {posted[k].payload.conflictingNames[i] :
                 i \in DOMAIN posted[k].payload.conflictingNames}
                = {doc0.variables[e].name : e \in Conflicting}
          /\ Len(posted[k].payload.conflictingNames) = Cardinality(Conflicting)

\* of two selected variables one was deleted, the other is named like a
\* variable of the target: the dry run reports one missing id and one name
C25_Witness ==
    /\ DryRunAt # {}
    /\ ~CollectionMissing
    /\ req.sourceCollectionId # req.targetCollectionId
    /\ req.variableIds = << S1, Gone >>
    /\ posted[1].payload.missingCount = 1
    /\ posted[1].payload.conflictingNames = << "a" >>

\* the last event posted is the result of a dry run
DryRunAnswered ==
    /\ Len(posted') = Len(posted) + 1
    /\ posted'[Len(posted')].type = "DRY_RUN_RESULT"

\* C26: the step that answers a DRY_RUN, with a result or with an error,
\* changes neither the collections, the variables and their mode values,
\* the nodes and their bindings, the styles, nor the identity map, the
\* watcher variables and the flag isMigrating.
C26_DryRunChangesNothing ==
    [][ DryRunAnswered =>
           UNCHANGED << variables, collections, nodes, styles, nextKey, idMap,
                        watched, isMigrating >> ]_vars

\* a dry run has answered with an error for a target collection that is
\* gone; the document and the identity map of an earlier run are as before
C26_Witness ==
    /\ pc = "idle"
    /\ DryRunAt = {1}
    /\ posted[1].payload = [error |-> "target_missing"]
    /\ idMap = StaleMap
    /\ idMap # EmptyMap
    /\ variables = doc0.variables
    /\ nodes = doc0.nodes
    /\ watched = Watched(doc0.collections, req.sourceCollectionId)

(***************************************************************************)
(* Two RUN_MIGRATION messages.  A handler is suspended only at the yields  *)
(* of rebindAll (code.ts:546, 590, 610, 614); the host may deliver the     *)
(* next message there, or after the handler has returned.  The second      *)
(* handler runs the same code on the same document and the same idMap; it  *)
(* is followed from yield to yield, its locals in the record other.  The   *)
(* host accepts the writes of the second handler.                          *)
(***************************************************************************)
\* documents of one mode per collection, S2 a FLOAT named "b"
RunDocs ==
    { d \in Docs :
         /\ Len(d.cfg.core) = 1
         /\ d.pat \in { [s1 |-> NoId, s2 |-> NoId, e |-> NoId, t |-> NoId],
                        [s1 |-> NoId, s2 |-> raw(S1), e |-> NoId, t |-> S1] }
         /\ d.s2name = "b"
         /\ d.s2type = "FLOAT"
         /\ d.e[2] = "COLOR" }

\* the payloads of the two messages: from Core to Prim
RunRequests ==
    [sourceCollectionId : {"Core"},
     targetCollectionId : {"Prim"},
     variableIds : {<< S1 >>, << S2 >>, << S1, S2 >>, << Gone, S1 >>},
     replaceConflicts : BOOLEAN]

\* the first handler is suspended at a yield, or has returned
Suspended == AtYield \/ pc \in {"done", "failed"}

\* code.ts:644-651  the map cleared, the counters of a new run
Fresh ==
    [vs |-> variables, cols |-> collections, key |-> nextKey,
     map |-> ClearedMap(idMap), moved |-> 0, replaced |-> 0, ok |-> TRUE]

\* code.ts:740-751  Pass 3, reached when Pass 2 has not thrown
ThenPass3(st, r) == IF st.ok THEN Pass3(st, r) ELSE st

\* code.ts:644-751  Pass 1, Pass 2 and Pass 3 of a run, without a yield
SyncPasses(r) == ThenPass3(Pass2(Pass1(Fresh, r), r), r)

\* code.ts:926, 644-773, 539-546  the second handler to its first yield, or
\* to its catch; st is what its passes left
OtherBegins(r, st) ==
    /\ variables' = st.vs
    /\ collections' = st.cols
    /\ nextKey' = st.key
    /\ idMap' = st.map
    /\ IF st.ok
       THEN /\ other' = [OtherIdle EXCEPT
                            !.pc = "filtering",
                            !.req = r,
                            !.movedCount = st.moved,
                            !.replacedCount = st.replaced,
                            !.varCache = WarmCache(st.vs, EmptyMap,
                                           SortedIds({st.map[k] : k \in DOMAIN st.map})),
                            !.found = {r.variableIds[i] : i \in DOMAIN r.variableIds}
                                         \cap DOMAIN variables,
                            !.during = pc]
            /\ isMigrating' = TRUE
            /\ posted' = Append(posted,
                           Msg("MIGRATION_SCANNING",
                               << Cardinality({i \in DOMAIN nodes : nodes[i].type # "PAGE"}),
                                  Cardinality({i \in DOMAIN nodes : nodes[i].type = "PAGE"}) >>))
            /\ UNCHANGED notice
       ELSE /\ other' = [OtherIdle EXCEPT
                            !.pc = "failed",
                            !.req = r,
                            !.movedCount = st.moved,
                            !.replacedCount = st.replaced,
                            !.found = {r.variableIds[i] : i \in DOMAIN r.variableIds}
                                         \cap DOMAIN variables,
                            !.during = pc]
            /\ isMigrating' = FALSE
            /\ posted' = Append(posted, Msg("MIGRATION_ERROR", << >>))
            /\ notice' = [NoNotice EXCEPT !.kind = "failed"]

\* code.ts:925-937, 631-773  a second RUN_MIGRATION is delivered
StartOther ==
    /\ other.pc = "idle"
    /\ Suspended
    /\ \E r \in RunRequests :
          /\ CollectionsFound(collections, r)
          /\ OtherBegins(r, SyncPasses(r))
    /\ UNCHANGED << nodes, styles, pc, req, runVars, log, doc0, regs, rejected,
                    sinceYield, watched, ui, call >>

\* code.ts:552-590  the second handler filters the nodes and yields
FilterOther ==
    /\ other.pc = "filtering"
    /\ Suspended
    /\ other' = [other EXCEPT !.pc = "rebinding",
                              !.allNodes = FindAll(nodes, 1, DOMAIN idMap)]
    /\ posted' = AnnounceTotal(posted, Len(other'.allNodes))
    /\ UNCHANGED << hostVars, idMap, isMigrating, pc, req, runVars, notice, log,
                    doc0, regs, rejected, sinceYield, watched, ui, call >>

\* code.ts:596-607  one entity of the second handler's traversal
\* acc = [o, ns]: its locals and the nodes
OtherEntity(acc, i, r) ==
    [o |-> [acc.o EXCEPT !.varCache = r.cache,
                         !.done = DoneIncrement(@),
                         !.nodesUpdated = @ + (IF r.changed THEN 1 ELSE 0)],
     ns |-> [acc.ns EXCEPT ![i] = r.node]]

\* code.ts:592-612  the entities of the second handler up to its next yield
RECURSIVE OtherBatch(_, _, _)
RECURSIVE OtherBatchOn(_, _, _)
OtherBatchOn(acc, vs, map) ==
    IF YieldDue(acc.o.done, Len(acc.o.allNodes)) THEN acc
    ELSE OtherBatch(acc, vs, map)

OtherBatch(acc, vs, map) ==
    OtherBatchOn(
        OtherEntity(acc, acc.o.allNodes[acc.o.done + 1],
                    RebindNodeBody(acc.ns[acc.o.allNodes[acc.o.done + 1]],
                                   acc.o.varCache, vs, map, {})),
        vs, map)

\* what a batch of the second handler leaves: the nodes, its locals, the
\* progress event posted before the yield
OtherRebound(acc) ==
    /\ nodes' = acc.ns
    /\ other' = acc.o
    /\ posted' = Append(posted, Msg("MIGRATION_PROGRESS",
                                    << acc.o.done, Len(acc.o.allNodes) >>))

\* code.ts:592-612  the second handler resumes its traversal
RebindOther ==
    /\ other.pc = "rebinding"
    /\ other.done < Len(other.allNodes)
    /\ Suspended
    /\ OtherRebound(OtherBatch([o |-> other, ns |-> nodes], variables, idMap))
    /\ UNCHANGED << variables, collections, styles, nextKey, idMap, isMigrating,
                    pc, req, runVars, notice, log, doc0, regs, rejected,
                    sinceYield, watched, ui, call >>

\* code.ts:776-788, 934, 939  Pass 5 of the second handler, its notice and
\* its result; r is what its loop over the styles left
OtherEnds(r, st) ==
    /\ styles' = r.styles
    /\ variables' = st.vs
    /\ collections' = st.cols
    /\ other' = [other EXCEPT !.pc = "done",
                              !.varCache = r.cache,
                              !.stylesUpdated = r.updated]
    /\ notice' = [kind |-> "done", moved |-> other.movedCount,
                  replaced |-> other.replacedCount,
                  skipped |-> Len(other.req.variableIds) - other.movedCount,
                  nodes |-> other.nodesUpdated, styles |-> r.updated]
    /\ posted' = Append(posted,
                        Msg("MIGRATION_SUCCESS",
                            << other.movedCount, other.replacedCount,
                               other.nodesUpdated, r.updated >>))
    /\ isMigrating' = FALSE

\* code.ts:614-619, 776-788, 934-940  the second handler after its traversal
FinishOther ==
    /\ other.pc = "rebinding"
    /\ other.done = Len(other.allNodes)
    /\ Suspended
    /\ OtherEnds(RebindStylesFrom([styles |-> styles, updated |-> 0,
                                   cache |-> other.varCache],
                                  1, variables, idMap, {}),
                 Pass5Loop([vs |-> variables, cols |-> collections],
                           other.req.variableIds, 1))
    /\ UNCHANGED << nodes, nextKey, idMap, pc, req, runVars, log, doc0, regs,
                    rejected, sinceYield, watched, ui, call >>

NextRuns ==
    \/ Next
    \/ StartOther
    \/ FilterOther
    \/ RebindOther
    \/ FinishOther

SpecRuns == InitOver(RunDocs, RunRequests) /\ [][NextRuns]_vars

\* id strings of either encoding: of the variables of the documents, of the
\* variables a run creates, of the deleted one and of the earlier run's
ProbeIds == {<< k, n >> : k \in {0, 1}, n \in 1..9}

\* the id strings resolveMappedId returns a value for
Resolving == {x \in ProbeIds : resolveMappedId(idMap, x) # Undefined}

\* the second handler began after the first had returned
InSequence == other.pc # "idle" /\ other.during \in {"done", "failed"}

\* C27: once a run has reset the identity map, resolveMappedId returns a
\* value only for an id that, in one of its two encodings, is a selected id
\* that Pass 1 of that run resolved: in the first run until a second message
\* arrives, and in a run that follows a finished one; the ids the earlier
\* run registered and the ids never registered resolve to undefined.
C27_OnlyThisRunResolves ==
    /\ (other.pc = "idle" /\ pc # "idle" /\ ~CollectionMissing) =>
          \A x \in Resolving : normalise(x) \in Resolvable
    /\ InSequence =>
          \A x \in Resolving : normalise(x) \in other.found

\* the first run moved S1 and returned; the run that follows moves S2: S1,
\* which the earlier run registered, no longer resolves
C27_Witness ==
    /\ InSequence
    /\ pc = "done"
    /\ req.variableIds = << S1 >>
    /\ other.req.variableIds = << S2 >>
    /\ other.pc = "rebinding"
    /\ resolveMappedId(idMap, S1) = Undefined
    /\ resolveMappedId(idMap, raw(S1)) = Undefined
    /\ resolveMappedId(idMap, raw(S2)) # Undefined
    /\ resolveMappedId(idMap, VarId(8)) = Undefined

\* the first run is between the end of its Pass 1 and the end of its Pass 4
MapInUse == InLog("pass1") /\ ~InLog("pass4") /\ pc # "failed"

\* C28: from the end of Pass 1 of a run until its Pass 4 has finished, no
\* step changes the identity map the run consults, whichever handler takes
\* the step.
C28_MapFixedWhileRebinding ==
    [][ MapInUse => idMap' = idMap ]_vars

\* the selected variables the identity map gives a destination to
Mapped == {V \in Resolvable : resolveMappedId(idMap, V) # Undefined}

\* C29: the identity map never gives one destination variable to two
\* distinct selected source variables, under either conflict policy.
C29_MapInvertible ==
    \A V, W \in Mapped :
       V # W => resolveMappedId(idMap, V) # resolveMappedId(idMap, W)

\* the payload of MIGRATION_SUCCESS: movedCount, replacedCount, nodesUpdated
\* and stylesUpdated, in this order
Result == LastPosted.payload

\* the selected variables that resolve and whose name a variable of the
\* target collection carried when the request arrived
Colliding ==
    {V \in Resolvable :
        \E e \in TargetIds0 : doc0.variables[e].name = doc0.variables[V].name}

\* C30: in the result of a completed run movedCount is the number of
\* selected ids that resolved, replacedCount the number of them that were
\* mapped to an existing variable (none under Duplicate), with
\* replacedCount <= movedCount <= number of selected ids; nodesUpdated is at
\* most the number of traversed entities and stylesUpdated at most the
\* number of local paint styles, and they count the traversed entities and
\* the styles a binding write changed; the notice reports the same counts.
C30_ResultCounters ==
    pc = "done" =>
       /\ LastPosted.type = "MIGRATION_SUCCESS"
       /\ Result[1] = Cardinality(Resolvable)
       /\ Result[2] = IF req.replaceConflicts THEN Cardinality(Colliding) ELSE 0
       /\ Result[2] <= Result[1]
       /\ Result[1] <= Len(req.variableIds)
       /\ Result[3] <= Len(allNodes)
       /\ Result[4] <= Len(styles)
       /\ Result[3] >= Cardinality({i \in Processed : nodes[i] # doc0.nodes[i]})
       /\ Result[4] >= Cardinality({i \in DOMAIN styles : styles[i] # doc0.styles[i]})
       /\ NoIdentityMapping =>
             /\ Result[3] = Cardinality({i \in Processed : nodes[i] # doc0.nodes[i]})
             /\ Result[4] = Cardinality({i \in DOMAIN styles : styles[i] # doc0.styles[i]})
       /\ notice = [kind |-> "done", moved |-> Result[1], replaced |-> Result[2],
                    skipped |-> Cardinality(Missing),
                    nodes |-> Result[3], styles |-> Result[4]]

\* a completed run: of two selected ids one resolved, and was mapped to an
\* existing variable; of the traversed entities and of the styles some were
\* updated and some were not
C30_Witness ==
    /\ pc = "done"
    /\ NoIdentityMapping
    /\ Len(req.variableIds) = 2
    /\ Result[1] = 1
    /\ Result[2] = 1
    /\ Len(allNodes) = 2
    /\ Result[3] = 1
    /\ Len(styles) = 2
    /\ Result[4] = 1

\* the destinations of the identity map
Destinations == {idMap[k] : k \in DOMAIN idMap}

\* C31: in a completed run no destination of the identity map is a selected
\* id, and every destination is still a variable of the document.
C31_DestinationsSurvive ==
    pc = "done" =>
       \A d \in Destinations : d \notin Selected /\ HasVariable(variables, d)

\* the variables of vs that a value of variable id aliases
AliasedBy(vs, id) ==
    {normalise(vs[id].values[m].id) :
        m \in {x \in DOMAIN vs[id].values : isVariableAlias(vs[id].values[x])}}
      \cap DOMAIN vs

\* the variables reached from the set S in at most n alias steps
RECURSIVE AliasReach(_, _, _)
AliasReach(vs, S, n) ==
    IF n = 0 THEN S
    ELSE AliasReach(vs, S \cup UNION {AliasedBy(vs, id) : id \in S}, n - 1)

\* no variable aliases itself, directly or along a chain
Acyclic(vs) ==
    \A id \in DOMAIN vs :
       id \notin AliasReach(vs, AliasedBy(vs, id), Cardinality(DOMAIN vs))

\* C32: the alias graph of the document, acyclic when the request arrives,
\* is acyclic after every step of the run.
C32_NoAliasCycle == Acyclic(doc0.variables) => Acyclic(variables)

\* the entities of the document that findAll did not keep
FilteredOut ==
    {i \in DOMAIN nodes : nodes[i].type # "PAGE"}
       \ {allNodes[k] : k \in DOMAIN allNodes}

\* what the rebinders of rebindAll's loop would do to entity i
Unfiltered(i) == RebindNodeBody(nodes[i], varCache, variables, idMap, {})

\* C33: while rebindAll traverses the entities findAll kept, the rebinders
\* applied to any other entity of the document would write no binding,
\* count no update and look no variable up: the traversal of the kept
\* entities leaves the bindings and nodesUpdated that the traversal of every
\* entity would.
C33_FilterLosesNoWork ==
    pc = "rebinding" =>
       \A i \in FilteredOut :
          /\ Unfiltered(i).node = nodes[i]
          /\ ~Unfiltered(i).changed
          /\ Unfiltered(i).cache = varCache

\* a run over a document with an entity bound to a variable that is not
\* migrated: findAll kept other entities and not this one
C33_Witness ==
    /\ pc = "rebinding"
    /\ done = Len(allNodes)
    /\ nodesUpdated >= 1
    /\ idMap # EmptyMap
    /\ \E i \in FilteredOut : RefersTo(nodes[i], {S2})

(***************************************************************************)
(* The documentchange handler (code.ts:799-807).  The host delivers the    *)
(* event between the tasks of the plugin: before the request is handled,   *)
(* at a yield of rebindAll, or after the handler has returned.  The        *)
(* handler is suspended once, at its collection lookup.                    *)
(***************************************************************************)
\* no task of the plugin is running
Quiet == pc = "idle" \/ Suspended

\* code.ts:801-802  currentCount
currentCount(cols, id) ==
    IF id \in DOMAIN cols THEN Len(cols[id].variableIds) ELSE Undefined

\* code.ts:799-801  a documentchange event passes the guard and the handler
\* awaits the collection
WatcherWakes ==
    /\ Quiet
    /\ watched.pc = "idle"
    /\ ~isMigrating
    /\ watched' = [watched EXCEPT !.pc = "lookup"]
    /\ UNCHANGED << hostVars, runVars, idMap, isMigrating, pc, req, posted, notice,
                    log, doc0, regs, rejected, sinceYield, other, ui, call >>

\* code.ts:802-806  the lookup has returned
WatcherResumes ==
    /\ Quiet
    /\ watched.pc = "lookup"
    /\ IF currentCount(collections, watched.collectionId) # watched.count
       THEN /\ watched' = [watched EXCEPT
                              !.count = currentCount(collections, watched.collectionId),
                              !.pc = "idle"]
            /\ posted' = Append(posted, Msg("VARIABLES_STALE", << >>))
       ELSE /\ watched' = [watched EXCEPT !.pc = "idle"]
            /\ UNCHANGED posted
    /\ UNCHANGED << hostVars, runVars, idMap, isMigrating, pc, req, notice, log,
                    doc0, regs, rejected, sinceYield, other, ui, call >>

NextWatch ==
    \/ Next
    \/ WatcherWakes
    \/ WatcherResumes

SpecWatch == InitOver(RunDocs, Requests) /\ [][NextWatch]_vars

\* an event VARIABLES_STALE is being posted
StalePosted ==
    /\ Len(posted') = Len(posted) + 1
    /\ posted'[Len(posted')].type = "VARIABLES_STALE"

\* C34: no VARIABLES_STALE is posted while isMigrating is set, and none at
\* all in a session in which only the migration changes the number of
\* variables of the watched collection.
C34_MigrationNeverStale == [][ ~StalePosted ]_vars

\* the selected variables the run mapped to a variable the document held
\* when the request arrived: those counted in replacedCount
Replaced == {V \in Resolvable : idMap[V] \in DOMAIN doc0.variables}

\* the payload of the dry run that preceded the run
Dry == posted[CHOOSE k \in DryRunAt : TRUE].payload

\* C35: when a run that followed a dry run on the same document with the
\* same selection has completed, the skipped count it reports is the dry
\* run's missingCount, and under Replace the variables it mapped to existing
\* ones are as many as replacedCount and carry the names of conflictingNames.
C35_DryRunAgreesWithRun ==
    (pc = "done" /\ DryRunAt # {}) =>
       /\ notice.skipped = Dry.missingCount
       /\ Len(req.variableIds) - Result[1] = Dry.missingCount
       /\ req.replaceConflicts =>
             /\ Cardinality(Replaced) = Result[2]
             /\ {doc0.variables[V].name : V \in Replaced}
                   = {Dry.conflictingNames[i] : i \in DOMAIN Dry.conflictingNames}

\* a dry run told one missing id and the conflicting name "a"; the run that
\* followed skipped one id and replaced one variable
C35_Witness ==
    /\ pc = "done"
    /\ DryRunAt # {}
    /\ req.replaceConflicts
    /\ req.sourceCollectionId # req.targetCollectionId
    /\ Dry.missingCount = 1
    /\ Dry.conflictingNames = << "a" >>
    /\ notice.skipped = 1
    /\ Result[2] = 1
    /\ Cardinality(TargetIds0) = 1

\* the second message repeats the request of the first run, which has
\* completed
Repeated ==
    /\ pc = "done"
    /\ other'.pc # "idle"
    /\ other'.during = "done"
    /\ other'.req = req

\* C36: every step of a run that repeats the request of a completed run
\* leaves the variables, their values, the collections, the nodes and the
\* styles as they are; the run resolves no selected id, and it ends in
\* MIGRATION_SUCCESS with movedCount, replacedCount, nodesUpdated and
\* stylesUpdated all 0.
C36_RepeatIsHarmless ==
    [][ Repeated =>
           /\ UNCHANGED << variables, collections, nodes, styles, nextKey >>
           /\ other'.found = {}
           /\ other'.pc # "failed"
           /\ other'.movedCount = 0
           /\ other'.replacedCount = 0
           /\ other'.nodesUpdated = 0
           /\ other'.stylesUpdated = 0
           /\ other'.pc = "done" =>
                 posted'[Len(posted')] = Msg("MIGRATION_SUCCESS", << 0, 0, 0, 0 >>) ]_vars

\* a run that moved variables and rebound nodes has completed, and the run
\* that repeated its request has completed too, with a result of zeros
C36_Witness ==
    /\ pc = "done"
    /\ other.pc = "done"
    /\ other.during = "done"
    /\ other.req = req
    /\ movedCount >= 1
    /\ nodesUpdated >= 1
    /\ Len(other.allNodes) >= 1
    /\ LastPosted = Msg("MIGRATION_SUCCESS", << 0, 0, 0, 0 >>)

\* the positions of the events of a type among the events posted
PostedAt(type) == {k \in DOMAIN posted : posted[k].type = type}

\* C37: among the events a run has posted, MIGRATION_SCANNING comes once and
\* before every MIGRATION_PROGRESS, no MIGRATION_PROGRESS comes without it,
\* and MIGRATION_SUCCESS or MIGRATION_ERROR, once posted, is the last event.
C37_MessageOrder ==
    /\ Cardinality(PostedAt("MIGRATION_SCANNING")) <= 1
    /\ \A j \in PostedAt("MIGRATION_PROGRESS") :
          \E i \in PostedAt("MIGRATION_SCANNING") : i < j
    /\ \A k \in PostedAt("MIGRATION_SUCCESS") \cup PostedAt("MIGRATION_ERROR") :
          k = Len(posted)
    /\ \A k \in DOMAIN posted :
          posted[k].type \in {"MIGRATION_SCANNING", "MIGRATION_PROGRESS",
                              "MIGRATION_SUCCESS", "MIGRATION_ERROR"}

\* a completed run over the long graph: the scan, then the progress events,
\* then the result
C37_Witness ==
    /\ pc = "done"
    /\ PostedAt("MIGRATION_SCANNING") = {1}
    /\ Cardinality(PostedAt("MIGRATION_PROGRESS")) >= 3
    /\ PostedAt("MIGRATION_SUCCESS") = {Len(posted)}

(***************************************************************************)
(* The target step of the UI (src/App.tsx): choosing a target sends        *)
(* DRY_RUN; the plugin answers the requests in the order they arrive; the  *)
(* UI takes each DRY_RUN_RESULT as it comes.  No run is in progress in     *)
(* this step (loading is false).                                           *)
(***************************************************************************)
\* App.tsx:924-926  the collections listed as targets: those loaded, but
\* the source; "Lost" has been deleted since the list was loaded
TargetChoices == {"Prim", "Theme", "Lost"}

\* App.tsx:501-517  handleTargetSelect
handleTargetSelect ==
    /\ ui.clicks < MaxClicks
    /\ \E id \in TargetChoices :
          ui' = [ui EXCEPT !.targetCollectionId = id,
                           !.dryRun = [status |-> "loading", payload |-> << >>,
                                       for |-> NoTarget],
                           !.sent = Append(@, id),
                           !.clicks = @ + 1]
    /\ UNCHANGED << hostVars, runVars, idMap, isMigrating, pc, req, posted, notice,
                    log, doc0, regs, rejected, sinceYield, watched, other, call >>

\* code.ts:884-923  what the plugin posts for the oldest DRY_RUN in flight
Answered(id, payload) ==
    /\ posted' = Append(posted, Msg("DRY_RUN_RESULT", payload))
    /\ ui' = [ui EXCEPT !.sent = Tail(@),
                        !.results = Append(@, [for |-> id, payload |-> payload])]

\* code.ts:884-923  the plugin handles the oldest DRY_RUN in flight
DryRunHandled ==
    /\ pc = "idle"
    /\ ui.sent # << >>
    /\ Answered(Head(ui.sent),
                DryRunResult(variables, collections,
                             [req EXCEPT !.targetCollectionId = Head(ui.sent)]))
    /\ UNCHANGED << hostVars, runVars, idMap, isMigrating, pc, req, notice, log,
                    doc0, regs, rejected, sinceYield, watched, other, call >>

\* App.tsx:387-392  the UI receives a DRY_RUN_RESULT
ResultReceived ==
    /\ ui.results # << >>
    /\ ui' = [ui EXCEPT
                 !.results = Tail(@),
                 !.dryRun = [status |-> IF "error" \in DOMAIN Head(ui.results).payload
                                        THEN "error" ELSE "done",
                             payload |-> Head(ui.results).payload,
                             for |-> Head(ui.results).for]]
    /\ UNCHANGED << hostVars, runVars, idMap, isMigrating, pc, req, posted, notice,
                    log, doc0, regs, rejected, sinceYield, watched, other, call >>

NextUi ==
    \/ handleTargetSelect
    \/ DryRunHandled
    \/ ResultReceived

SpecUi == InitOver(RunDocs, RunRequests) /\ [][NextUi]_vars

\* App.tsx:1074-1081  the Confirm Move button is enabled
ConfirmEnabled ==
    /\ ui.targetCollectionId # NoTarget
    /\ ui.dryRun.status \notin {"loading", "error"}

\* C38: whenever the Confirm Move button is enabled, the dry-run result the
\* UI holds was computed for the target collection that is selected.
C38_ConfirmShowsCurrentTarget ==
    ConfirmEnabled => ui.dryRun.for = ui.targetCollectionId

(***************************************************************************)
(* resolveAliasColor (code.ts:209-234) on its own, over alias chains that  *)
(* end in a colour, in a missing variable, in a variable that is not a     *)
(* COLOR, in a variable without a value, or that run into a cycle.  One    *)
(* step is one invocation; the lookup it awaits is always answered.        *)
(***************************************************************************)
\* code.ts:214  if (depth > 10)
MaxDepth == 10

\* the mode the caller prefers
PreferredMode == "m1"

ChainEnds == {"color", "missing", "float", "empty", "cycle", "self"}

\* the k-th variable of a chain of n variables: it aliases the next one;
\* every second variable holds its value under another mode than the
\* preferred one
ChainValue(k, n, end) ==
    IF k < n THEN Alias(VarId(k + 1))
    ELSE IF end = "color" THEN Lit("COLOR", k)
    ELSE IF end = "float" THEN Lit("FLOAT", k)
    ELSE IF end = "missing" THEN Alias(VarId(n + 1))
    ELSE IF end = "cycle" THEN Alias(VarId(1))
    ELSE Alias(VarId(n))

ChainVariable(k, n, end) ==
    [name |-> "v", col |-> "Core",
     type |-> IF k = n /\ end = "float" THEN "FLOAT" ELSE "COLOR",
     description |-> "v", scopes |-> {"COLOR"}, codeSyntax |-> "v",
     values |-> IF k = n /\ end = "empty" THEN [m \in {} |-> Undefined]
                ELSE [m \in {IF k % 2 = 1 THEN PreferredMode ELSE "x1"} |->
                         ChainValue(k, n, end)]]

ChainVariables(n, end) ==
    [id \in {VarId(k) : k \in 1..n} |-> ChainVariable(id[2], n, end)]

\* the call returns undefined
NoColor == [defined |-> FALSE, hex |-> 0]

\* valuesByMode holds no value
NoValue == [kind |-> "none", id |-> Undefined, type |-> "NONE", lit |-> 0]

\* a faulty guard: one more level of the chain is followed
DepthExceededLate(depth) == depth > MaxDepth + 1

\* code.ts:214  if (depth > 10) return undefined
DepthExceeded(depth) == depth > MaxDepth

\* code.ts:218-221  valuesByMode[preferredModeId] ?? Object.values(...)[0];
\* a variable of the chains holds one value at most
ValueFor(values, preferredModeId) ==
    IF preferredModeId \in DOMAIN values THEN values[preferredModeId]
    ELSE IF DOMAIN values = {} THEN NoValue
    ELSE values[CHOOSE m \in DOMAIN values : TRUE]

\* code.ts:227-232  the hex string of a colour value
Hex(val) == [defined |-> TRUE, hex |-> val.lit]

\* return of the outermost call
Returned(c, result, looked) ==
    [c EXCEPT !.pc = "returned", !.result = result, !.lookups = @ + looked]

\* code.ts:217-233  the invocation after its lookup; val is the value taken
Looked(c, v, val) ==
    IF val.kind = "none" THEN Returned(c, NoColor, 1)
    ELSE IF isVariableAlias(val)
    THEN [c EXCEPT !.varId = val.id, !.depth = @ + 1, !.lookups = @ + 1]
    ELSE IF val.type = "COLOR" THEN Returned(c, Hex(val), 1)
    ELSE Returned(c, NoColor, 1)

\* code.ts:209-234  one invocation of resolveAliasColor
resolveAliasColor ==
    /\ pc = "color"
    /\ call.pc = "called"
    /\ call' =
          IF DepthExceeded(call.depth) THEN Returned(call, NoColor, 0)
          ELSE IF ~HasVariable(variables, call.varId)
          THEN Returned(call, NoColor, 1)
          ELSE IF variables[call.varId].type # "COLOR"
          THEN Returned(call, NoColor, 1)
          ELSE Looked(call, variables[call.varId],
                      ValueFor(variables[call.varId].values, PreferredMode))
    /\ UNCHANGED << hostVars, runVars, idMap, isMigrating, pc, req, posted, notice,
                    log, doc0, regs, rejected, sinceYield, watched, other, ui >>

\* resolveAliasColor(VarId(1), PreferredMode) is called on a chain; doc0
\* keeps the length of the chain and its end
InitColor ==
    /\ \E n \in 1..MaxChain, end \in ChainEnds :
          /\ variables = ChainVariables(n, end)
          /\ doc0 = [variables |-> variables, n |-> n, end |-> end]
    /\ collections = [c \in {} |-> 0]
    /\ nodes = << >>
    /\ styles = << >>
    /\ nextKey = MaxChain + 2
    /\ req = [sourceCollectionId |-> "Core", targetCollectionId |-> "Prim",
              variableIds |-> << >>, replaceConflicts |-> FALSE]
    /\ idMap = EmptyMap
    /\ isMigrating = FALSE
    /\ pc = "color"
    /\ movedCount = 0
    /\ replacedCount = 0
    /\ varCache = EmptyMap
    /\ allNodes = << >>
    /\ done = 0
    /\ nodesUpdated = 0
    /\ stylesUpdated = 0
    /\ posted = << >>
    /\ notice = NoNotice
    /\ log = << >>
    /\ regs = << >>
    /\ rejected = FALSE
    /\ sinceYield = 0
    /\ watched = Watched(collections, req.sourceCollectionId)
    /\ other = OtherIdle
    /\ ui = UiIdle
    /\ call = [NotCalled EXCEPT !.pc = "called", !.varId = VarId(1)]

NextColor == resolveAliasColor

\* the lookup an invocation awaits is answered and the invocation resumed
SpecColor == InitColor /\ [][NextColor]_vars /\ WF_vars(NextColor)

\* the variables the call meets before the chain ends or closes: those of
\* the chain, and the missing one when the chain ends in it
ChainLookups ==
    IF doc0.end \in {"cycle", "self"} THEN MaxDepth + 1
    ELSE IF doc0.end = "missing" THEN doc0.n + 1
    ELSE doc0.n

\* C39: on every chain the call returns; it has looked up at most 11
\* variables, those of the chain up to the 11th; it returns the colour the
\* chain ends in when the chain holds at most 11 variables, and undefined
\* when the chain is longer, runs into a cycle, or ends in a missing
\* variable, in a variable that is not a COLOR or in one without a value.
C39_ResolveTerminates ==
    /\ [](call.lookups <= MaxDepth + 1)
    /\ <>[](call.pc = "returned")
    /\ [](call.pc = "returned" =>
            /\ call.lookups = IF ChainLookups > MaxDepth + 1 THEN MaxDepth + 1
                              ELSE ChainLookups
            /\ call.result = IF doc0.end = "color" /\ doc0.n <= MaxDepth + 1
                             THEN [defined |-> TRUE, hex |-> doc0.n]
                             ELSE NoColor)

\* the call has returned undefined from a cycle of two variables, after 11
\* lookups
C39_Witness ==
    /\ pc = "color"
    /\ call.pc = "returned"
    /\ doc0.end = "cycle"
    /\ doc0.n = 2
    /\ call.lookups = MaxDepth + 1
    /\ call.depth = MaxDepth + 1
    /\ ~call.result.defined
====
